---- MODULE Spec2Model ----
(***************************************************************************)
(* Model of the survey cleaning engine (DataProcessor, utils/dataProcessor) *)
(* of the Survey Analysis Platform.                                         *)
(*                                                                          *)
(* JavaScript values are records [t, n, d, s]:                              *)
(*   t = "num"       a finite number, the rational n/d in lowest terms      *)
(*   t = "nan"       NaN                                                    *)
(*   t = "inf"       +Infinity (n = 1) or -Infinity (n = -1)                *)
(*   t = "null", "undefined"                                                *)
(*   t = "str"       the string s, which does not start with a number       *)
(*   t = "numstr"    the string String(n/d), e.g. an Object.keys() key      *)
(* Arithmetic on finite numbers is exact rational arithmetic; Math.sqrt is  *)
(* exact on perfect squares and rounded down to 1/SqrtDen otherwise.        *)
(*                                                                          *)
(* State: file is the file dropped on the upload area with what the CSV     *)
(* parser makes of it, calls the callbacks the upload has called;           *)
(* data, config and analysis are the arguments as they were passed;         *)
(* cleanedData is the local of cleanData (later the App's cleaned rows);    *)
(* owner[i] is the index of the caller's row object that cleanedData[i] is, *)
(* or 0 for an object the engine created; inputRows are the caller's row    *)
(* objects as they are now; pc is the next statement; history records each  *)
(* operation that ran with its input and output.                            *)
(***************************************************************************)
EXTENDS Integers, Sequences, FiniteSets, TLC

VARIABLES file, calls, data, config, analysis, cleanedData, owner, inputRows, pc, history

vars == <<file, calls, data, config, analysis, cleanedData, owner, inputRows, pc, history>>

(***************************************************************************)
(* Bounds of the model                                                      *)
(***************************************************************************)
MaxRows == 3

SqrtDen == 16

(***************************************************************************)
(* JavaScript values                                                        *)
(***************************************************************************)
Abs(x) == IF x < 0 THEN -x ELSE x

RECURSIVE Gcd(_, _)
Gcd(a, b) == IF b = 0 THEN a ELSE Gcd(b, a % b)

Num(n, d) ==
  LET g == Gcd(Abs(n), Abs(d))
      sg == IF d < 0 THEN -1 ELSE 1
  IN  [t |-> "num", n |-> sg * (n \div g), d |-> sg * (d \div g), s |-> ""]

NumInt(n) == [t |-> "num", n |-> n, d |-> 1, s |-> ""]

NaN == [t |-> "nan", n |-> 0, d |-> 1, s |-> ""]

Infinity == [t |-> "inf", n |-> 1, d |-> 1, s |-> ""]

NegInfinity == [t |-> "inf", n |-> -1, d |-> 1, s |-> ""]

Null == [t |-> "null", n |-> 0, d |-> 1, s |-> ""]

Undefined == [t |-> "undefined", n |-> 0, d |-> 1, s |-> ""]

Str(s) == [t |-> "str", n |-> 0, d |-> 1, s |-> s]

EmptyString == Str("")

\* The value a reduce() over an empty array without initial value "returns":
\* a TypeError is thrown.
TypeError == [t |-> "throw", n |-> 0, d |-> 1, s |-> "TypeError"]

\* String(v), as used for the keys of lodash.countBy's result object
String(v) ==
  CASE v.t = "num" -> [v EXCEPT !.t = "numstr"]
    [] v.t = "nan" -> Str("NaN")
    [] v.t = "null" -> Str("null")
    [] v.t = "undefined" -> Str("undefined")
    [] OTHER -> v

\* parseFloat(v): numbers and numeric strings parse, everything else is NaN
parseFloat(v) ==
  CASE v.t = "num" -> v
    [] v.t = "numstr" -> [v EXCEPT !.t = "num"]
    [] v.t = "inf" -> v
    [] OTHER -> NaN

isNaN(v) == v.t = "nan"

\* isFinite(v) coerces with Number(v): null and '' become 0
isFinite(v) ==
  \/ v.t \in {"num", "numstr", "null"}
  \/ v = EmptyString

Sign(x) == IF x > 0 THEN 1 ELSE IF x < 0 THEN -1 ELSE 0

Neg(a) == IF a.t = "nan" THEN NaN ELSE [a EXCEPT !.n = -a.n]

Add(a, b) ==
  CASE a.t = "nan" \/ b.t = "nan" -> NaN
    [] a.t = "num" /\ b.t = "num" ->
         LET g == Gcd(a.d, b.d)
         IN  Num(a.n * (b.d \div g) + b.n * (a.d \div g), (a.d \div g) * b.d)
    [] a.t = "inf" /\ b.t = "inf" -> IF a.n = b.n THEN a ELSE NaN
    [] a.t = "inf" -> a
    [] OTHER -> b

Sub(a, b) == Add(a, Neg(b))

Mul(a, b) ==
  CASE a.t = "nan" \/ b.t = "nan" -> NaN
    [] a.t = "num" /\ b.t = "num" ->
         LET g1 == Gcd(Abs(a.n), b.d)
             g2 == Gcd(Abs(b.n), a.d)
         IN  Num((a.n \div g1) * (b.n \div g2), (a.d \div g2) * (b.d \div g1))
    [] a.n = 0 \/ b.n = 0 -> NaN
    [] OTHER -> IF Sign(a.n) * Sign(b.n) > 0 THEN Infinity ELSE NegInfinity

Div(a, b) ==
  CASE a.t = "nan" \/ b.t = "nan" -> NaN
    [] a.t = "inf" /\ b.t = "inf" -> NaN
    [] a.t = "inf" ->
         IF Sign(a.n) * (IF b.n < 0 THEN -1 ELSE 1) > 0 THEN Infinity ELSE NegInfinity
    [] b.t = "inf" -> NumInt(0)
    [] b.n = 0 ->
         IF a.n = 0 THEN NaN ELSE IF a.n > 0 THEN Infinity ELSE NegInfinity
    [] OTHER ->
         LET g1 == Gcd(Abs(a.n), Abs(b.n))
             g2 == Gcd(a.d, b.d)
         IN  Num((a.n \div g1) * (b.d \div g2), (a.d \div g2) * (b.n \div g1))

\* a < b on JavaScript numbers (false when either is NaN)
Lt(a, b) ==
  CASE a.t = "nan" \/ b.t = "nan" -> FALSE
    [] a.t = "num" /\ b.t = "num" -> a.n * b.d < b.n * a.d
    [] a.t = "inf" /\ b.t = "inf" -> a.n < b.n
    [] a.t = "inf" -> a.n < 0
    [] OTHER -> b.n > 0

Gt(a, b) == Lt(b, a)

Le(a, b) == ~isNaN(a) /\ ~isNaN(b) /\ ~Lt(b, a)

Ge(a, b) == Le(b, a)

MathAbs(a) == IF a.t = "nan" THEN NaN ELSE [a EXCEPT !.n = Abs(a.n)]

\* the largest k in lo..hi with k * k <= x, by bisection (lo * lo <= x)
RECURSIVE ISqrtBetween(_, _, _)
ISqrtBetween(x, lo, hi) ==
  IF lo >= hi THEN lo
  ELSE LET mid == (lo + hi + 1) \div 2
       IN  IF mid * mid <= x THEN ISqrtBetween(x, mid, hi) ELSE ISqrtBetween(x, lo, mid - 1)

\* the integer square root of x >= 0
ISqrt(x) == ISqrtBetween(x, 0, IF x < 46340 THEN x ELSE 46340)

IsSquare(x) == ISqrt(x) * ISqrt(x) = x

\* Math.sqrt: exact on squares of rationals, else rounded down to 1/SqrtDen
MathSqrt(a) ==
  CASE a.t = "nan" -> NaN
    [] a.t = "inf" -> IF a.n > 0 THEN Infinity ELSE NaN
    [] a.n < 0 -> NaN
    [] IsSquare(a.n) /\ IsSquare(a.d) -> Num(ISqrt(a.n), ISqrt(a.d))
    [] OTHER ->
         LET q == a.n \div a.d
             r == a.n % a.d
             scaled == q * SqrtDen * SqrtDen + (r * SqrtDen * SqrtDen) \div a.d
         IN  Num(ISqrt(scaled), SqrtDen)

(***************************************************************************)
(* Array helpers                                                            *)
(***************************************************************************)
\* values.reduce((sum, val) => sum + val, 0)
RECURSIVE ReduceSum(_)
ReduceSum(values) ==
  IF values = <<>> THEN NumInt(0)
  ELSE Add(ReduceSum(SubSeq(values, 1, Len(values) - 1)), values[Len(values)])

\* insert v into an ascending array after every element that is not greater
RECURSIVE InsertAsc(_, _)
InsertAsc(sorted, v) ==
  IF sorted = <<>> THEN <<v>>
  ELSE IF Lt(v, Head(sorted)) THEN <<v>> \o sorted
  ELSE <<Head(sorted)>> \o InsertAsc(Tail(sorted), v)

\* values.sort((a, b) => a - b): ascending and stable
RECURSIVE SortAsc(_)
SortAsc(values) ==
  IF values = <<>> THEN <<>>
  ELSE InsertAsc(SortAsc(SubSeq(values, 1, Len(values) - 1)), values[Len(values)])

\* values[i] of a JavaScript array (0-based); out of range is undefined
At(values, i) == IF i >= 0 /\ i < Len(values) THEN values[i + 1] ELSE Undefined

\* an array element as the operand of + : undefined converts to NaN
ToNumber(v) == IF v = Undefined THEN NaN ELSE v

\* values.filter(v => !isNaN(v))
RECURSIVE FilterNotNaN(_)
FilterNotNaN(values) ==
  IF values = <<>> THEN <<>>
  ELSE (IF isNaN(Head(values)) THEN <<>> ELSE <<Head(values)>>)
         \o FilterNotNaN(Tail(values))

\* data.map(row => parseFloat(row[column])).filter(v => !isNaN(v))
NumericValues(rows, column) ==
  FilterNotNaN([i \in 1..Len(rows) |-> parseFloat(rows[i][column])])

IsMissing(v) == v = Null \/ v = Undefined \/ v = EmptyString

(***************************************************************************)
(* Column statistics                                                        *)
(***************************************************************************)
\* a mean that divides by the number of rows, missing cells included
calculateColumnMean_DivByRows(rows, column) ==
  Div(ReduceSum(NumericValues(rows, column)), NumInt(Len(rows)))

calculateColumnMean(rows, column) ==
  LET values == NumericValues(rows, column)
  IN  Div(ReduceSum(values), NumInt(Len(values)))

calculateColumnMedian(rows, column) ==
  LET values == SortAsc(NumericValues(rows, column))
      mid == Len(values) \div 2
  IN  IF Len(values) % 2 = 0
      THEN Div(Add(ToNumber(At(values, mid - 1)), ToNumber(At(values, mid))), NumInt(2))
      ELSE At(values, mid)

calculateColumnStd(rows, column) ==
  LET values == NumericValues(rows, column)
      mean == Div(ReduceSum(values), NumInt(Len(values)))
      squaredDiffs == [i \in 1..Len(values) |->
                         Mul(Sub(values[i], mean), Sub(values[i], mean))]
      avgSquaredDiff == Div(ReduceSum(squaredDiffs), NumInt(Len(values)))
  IN  MathSqrt(avgSquaredDiff)

\* the first occurrence of every element, in order
RECURSIVE Dedup(_)
Dedup(seq) ==
  IF seq = <<>> THEN <<>>
  ELSE LET init == Dedup(SubSeq(seq, 1, Len(seq) - 1))
           last == seq[Len(seq)]
       IN  IF \E i \in 1..Len(init) : init[i] = last THEN init ELSE Append(init, last)

\* a key that is an array index: a canonical non-negative integer
IsIndexKey(key) == key.t = "numstr" /\ key.d = 1 /\ key.n >= 0

RECURSIVE FilterIndexKeys(_, _)
FilterIndexKeys(keys, want) ==
  IF keys = <<>> THEN <<>>
  ELSE (IF IsIndexKey(Head(keys)) = want THEN <<Head(keys)>> ELSE <<>>)
         \o FilterIndexKeys(Tail(keys), want)

\* Object.keys(lodash.countBy(values)): integer keys ascending, then the
\* other keys in insertion order
ObjectKeys(values) ==
  LET inserted == Dedup([i \in 1..Len(values) |-> String(values[i])])
      indexKeys == SortAsc([i \in 1..Len(FilterIndexKeys(inserted, TRUE)) |->
                              parseFloat(FilterIndexKeys(inserted, TRUE)[i])])
  IN  [i \in 1..Len(indexKeys) |-> String(indexKeys[i])]
        \o FilterIndexKeys(inserted, FALSE)

\* lodash.countBy(values)[key]
Frequency(values, key) == Cardinality({i \in 1..Len(values) : String(values[i]) = key})

\* keys.reduce((a, b) => frequency[a] > frequency[b] ? a : b), no initial value
RECURSIVE ReduceMostFrequent(_, _)
ReduceMostFrequent(values, keys) ==
  IF keys = <<>> THEN TypeError
  ELSE IF Len(keys) = 1 THEN keys[1]
  ELSE LET a == ReduceMostFrequent(values, SubSeq(keys, 1, Len(keys) - 1))
           b == keys[Len(keys)]
       IN  IF Frequency(values, a) > Frequency(values, b) THEN a ELSE b

RECURSIVE FilterNotNullish(_)
FilterNotNullish(values) ==
  IF values = <<>> THEN <<>>
  ELSE (IF Head(values) = Null \/ Head(values) = Undefined THEN <<>> ELSE <<Head(values)>>)
         \o FilterNotNullish(Tail(values))

calculateColumnMode(rows, column) ==
  LET values == FilterNotNullish([i \in 1..Len(rows) |-> rows[i][column]])
  IN  ReduceMostFrequent(values, ObjectKeys(values))

(***************************************************************************)
(* KNN imputation                                                           *)
(***************************************************************************)
KnnK == 5

KnnSample == 10

\* 1e-8
Epsilon == Num(1, 100000000)

RECURSIVE FilterComplete(_, _)
FilterComplete(rows, targetColumn) ==
  IF rows = <<>> THEN <<>>
  ELSE (IF IsMissing(Head(rows)[targetColumn]) THEN <<>> ELSE <<Head(rows)>>)
         \o FilterComplete(Tail(rows), targetColumn)

\* one step of columns.forEach in calculateDistance: acc = [distance, validDimensions]
DistanceStep(acc, row1, row2, col, metric) ==
  LET val1 == parseFloat(row1[col])
      val2 == parseFloat(row2[col])
      diff == MathAbs(Sub(val1, val2))
  IN  IF ~isNaN(val1) /\ ~isNaN(val2)
      THEN [distance |-> IF metric = "euclidean"
                         THEN Add(acc.distance, Mul(diff, diff))
                         ELSE Add(acc.distance, diff),
            validDimensions |-> acc.validDimensions + 1]
      ELSE acc

RECURSIVE DistanceFold(_, _, _, _)
DistanceFold(row1, row2, columns, metric) ==
  IF columns = <<>> THEN [distance |-> NumInt(0), validDimensions |-> 0]
  ELSE DistanceStep(DistanceFold(row1, row2, SubSeq(columns, 1, Len(columns) - 1), metric),
                    row1, row2, columns[Len(columns)], metric)

calculateDistance(row1, row2, columns, metric) ==
  LET acc == DistanceFold(row1, row2, columns, metric)
  IN  IF acc.validDimensions = 0 THEN Infinity
      ELSE IF metric = "euclidean" THEN MathSqrt(acc.distance) ELSE acc.distance

\* distances.sort((a, b) => a.distance - b.distance): ascending, stable; two
\* infinite distances compare as NaN, that is as equal
RECURSIVE InsertByDistance(_, _)
InsertByDistance(sorted, e) ==
  IF sorted = <<>> THEN <<e>>
  ELSE IF Lt(e.distance, Head(sorted).distance) THEN <<e>> \o sorted
  ELSE <<Head(sorted)>> \o InsertByDistance(Tail(sorted), e)

RECURSIVE SortByDistance(_)
SortByDistance(distances) ==
  IF distances = <<>> THEN <<>>
  ELSE InsertByDistance(SortByDistance(SubSeq(distances, 1, Len(distances) - 1)),
                        distances[Len(distances)])

Min(a, b) == IF a < b THEN a ELSE b

\* the columns knnImputation uses for the distance: more than 70% of the
\* first 10 rows hold a finite number
RECURSIVE FilterNumericColumns(_, _, _)
FilterNumericColumns(rows, keys, targetColumn) ==
  IF keys = <<>> THEN <<>>
  ELSE LET col == Head(keys)
           sample == SubSeq(rows, 1, Min(KnnSample, Len(rows)))
           numericCount == Cardinality({i \in 1..Len(sample) :
                              ~isNaN(parseFloat(sample[i][col])) /\ isFinite(sample[i][col])})
       IN  (IF col # targetColumn /\ 10 * numericCount > 7 * Len(sample)
            THEN <<col>> ELSE <<>>)
             \o FilterNumericColumns(rows, Tail(keys), targetColumn)

PreviewSample == 100

\* the column type the data preview shows: numeric when more than 70% of the
\* first 100 rows hold a finite number, text otherwise
getColumnType(rows, header) ==
  LET sampleValues == [i \in 1..Min(PreviewSample, Len(rows)) |-> rows[i][header]]
      numericValues == Cardinality({i \in 1..Len(sampleValues) :
                          ~isNaN(parseFloat(sampleValues[i])) /\ isFinite(sampleValues[i])})
  IN  IF 10 * numericValues > 7 * Len(sampleValues) THEN "numeric" ELSE "text"

\* the weighted sums of the numeric branch: acc = [weightedSum, totalWeight]
RECURSIVE WeightedFold(_, _)
WeightedFold(neighbors, targetColumn) ==
  IF neighbors = <<>> THEN [weightedSum |-> NumInt(0), totalWeight |-> NumInt(0)]
  ELSE LET acc == WeightedFold(SubSeq(neighbors, 1, Len(neighbors) - 1), targetColumn)
           neighbor == neighbors[Len(neighbors)]
           value == parseFloat(neighbor.row[targetColumn])
           weight == IF neighbor.distance = NumInt(0) THEN NumInt(1)
                     ELSE Div(NumInt(1), Add(neighbor.distance, Epsilon))
       IN  IF ~isNaN(value)
           THEN [weightedSum |-> Add(acc.weightedSum, Mul(value, weight)),
                 totalWeight |-> Add(acc.totalWeight, weight)]
           ELSE acc

\* the row keys, in insertion order (Object.keys(targetRow))
Headers == <<"x", "y">>

Keys == {Headers[i] : i \in 1..Len(Headers)}

\* a knnImputation that falls back to the column mean unless more than k
\* rows have a value for the target column
knnResult_FallbackUpToK(rows, targetRow, targetColumn, k, distanceMetric) ==
  LET completeRows == FilterComplete(rows, targetColumn)
      neighborValues == [i \in 1..Min(k, Len(completeRows)) |-> completeRows[i][targetColumn]]
  IN  IF Len(completeRows) <= k
      THEN [value |-> calculateColumnMean(rows, targetColumn), via |-> "mean-no-complete-rows"]
      ELSE [value |-> ReduceMostFrequent(neighborValues, ObjectKeys(neighborValues)),
            via |-> "mode"]

\* knnImputation, with the branch that produced the value
knnResult(rows, targetRow, targetColumn, k, distanceMetric) ==
  LET completeRows == FilterComplete(rows, targetColumn)
      numericColumns == FilterNumericColumns(rows, Headers, targetColumn)
      distances == [i \in 1..Len(completeRows) |->
                      [row |-> completeRows[i],
                       distance |-> calculateDistance(targetRow, completeRows[i],
                                                      numericColumns, distanceMetric)]]
      nearestNeighbors == SubSeq(SortByDistance(distances), 1, Min(k, Len(distances)))
      targetValue == parseFloat(targetRow[targetColumn])
      acc == WeightedFold(nearestNeighbors, targetColumn)
      neighborValues == [i \in 1..Len(nearestNeighbors) |->
                           nearestNeighbors[i].row[targetColumn]]
  IN  IF Len(completeRows) = 0
      THEN [value |-> calculateColumnMean(rows, targetColumn), via |-> "mean-no-complete-rows"]
      ELSE IF ~isNaN(targetValue)
      THEN IF Gt(acc.totalWeight, NumInt(0))
           THEN [value |-> Div(acc.weightedSum, acc.totalWeight), via |-> "weighted-average"]
           ELSE [value |-> calculateColumnMean(rows, targetColumn), via |-> "mean-zero-weight"]
      ELSE [value |-> ReduceMostFrequent(neighborValues, ObjectKeys(neighborValues)),
            via |-> "mode"]

knnImputation(rows, targetRow, targetColumn, k, distanceMetric) ==
  knnResult(rows, targetRow, targetColumn, k, distanceMetric).value

(***************************************************************************)
(* Imputation stage                                                         *)
(***************************************************************************)
\* the body of columns.forEach(col => ...) for one column
ImputeColumn(rows, row, newRow, col, method) ==
  IF IsMissing(newRow[col])
  THEN CASE method = "mean" -> [newRow EXCEPT ![col] = calculateColumnMean(rows, col)]
         [] method = "median" -> [newRow EXCEPT ![col] = calculateColumnMedian(rows, col)]
         [] method = "mode" -> [newRow EXCEPT ![col] = calculateColumnMode(rows, col)]
         [] method = "knn" ->
              [newRow EXCEPT ![col] = knnImputation(rows, row, col, KnnK, "euclidean")]
         \* 'forward-fill': break; 'remove': return null from the forEach
         \* callback, which forEach ignores; 'backward-fill': no case
         [] OTHER -> newRow
  ELSE newRow

RECURSIVE ImputeRow(_, _, _, _)
ImputeRow(rows, row, columns, method) ==
  IF columns = <<>> THEN row
  ELSE ImputeColumn(rows, row,
                    ImputeRow(rows, row, SubSeq(columns, 1, Len(columns) - 1), method),
                    columns[Len(columns)], method)

\* data.map(row => ...).filter(row => row !== null): the map callback always
\* returns newRow, so the filter keeps every row
handleMissingValues(rows, imputation) ==
  [i \in 1..Len(rows) |-> ImputeRow(rows, rows[i], imputation.columns, imputation.method)]

\* a stage result in which some cell would have been computed by a throwing call
Throws(rows) == \E i \in 1..Len(rows) : \E c \in Keys : rows[i][c] = TypeError

(***************************************************************************)
(* Outlier stage                                                            *)
(***************************************************************************)
MathFloor(a) == a.n \div a.d

\* the number of halvings that bring n/d (>= 1) below 2
RECURSIVE Log2Floor(_, _)
Log2Floor(n, d) == IF n < 2 * d THEN 0 ELSE 1 + Log2Floor(n, 2 * d)

RECURSIVE Pow2(_)
Pow2(k) == IF k = 0 THEN 1 ELSE 2 * Pow2(k - 1)

\* ln of a finite a >= 1: k ln 2 + 2z(1 + z^2/3) with z = (m-1)/(m+1) and
\* a = m 2^k, 1 <= m < 2, rounded down to 1/SqrtDen
LogAtLeastOne(a) ==
  LET k == Log2Floor(a.n, a.d)
      m == Num(a.n, a.d * Pow2(k))
      z32 == NumInt((32 * (m.n - m.d)) \div (m.n + m.d))
      z == Div(z32, NumInt(32))
      ln2 == Num(61, 88)
      approx == Add(Mul(NumInt(k), ln2),
                    Mul(Mul(NumInt(2), z), Add(NumInt(1), Div(Mul(z, z), NumInt(3)))))
  IN  Num(MathFloor(Mul(approx, NumInt(SqrtDen))), SqrtDen)

\* Math.log of a finite positive number
MathLog(a) ==
  IF a.n >= a.d THEN LogAtLeastOne(a) ELSE Neg(LogAtLeastOne(Num(a.d, a.n)))

\* threshold used as a number: an object operand makes the product NaN
ThresholdNumber(threshold) ==
  IF threshold.kind = "number" THEN threshold.value ELSE NaN

\* if (method = 'z-score'): the first test assigns, so every method is z-score
OutlierCheck_AssignsMethod(rows, col, value, method, threshold) ==
  LET mean == calculateColumnMean(rows, col)
      std == calculateColumnStd(rows, col)
      t == ThresholdNumber(threshold)
  IN  [isOutlier |-> Gt(MathAbs(Div(Sub(value, mean), std)), t),
       lowerBound |-> Sub(mean, Mul(t, std)),
       upperBound |-> Add(mean, Mul(t, std))]

\* winsorization bounds taken one element too far out on the upper side
OutlierCheck_UpperIndexPlusOne(rows, col, value, method, threshold) ==
  LET values == SortAsc(NumericValues(rows, col))
      lowerBound == At(values, MathFloor(Mul(NumInt(Len(values)), threshold.lower)))
      upperBound == At(values, MathFloor(Mul(NumInt(Len(values)), threshold.upper)) + 1)
  IN  [isOutlier |-> Lt(value, ToNumber(lowerBound)) \/ Gt(value, ToNumber(upperBound)),
       lowerBound |-> lowerBound,
       upperBound |-> upperBound]

\* the bounds of a column and whether value lies outside them
OutlierCheck(rows, col, value, method, threshold) ==
  CASE method = "z-score" ->
         LET mean == calculateColumnMean(rows, col)
             std == calculateColumnStd(rows, col)
             t == ThresholdNumber(threshold)
             zScore == MathAbs(Div(Sub(value, mean), std))
         IN  [isOutlier |-> Gt(zScore, t),
              lowerBound |-> Sub(mean, Mul(t, std)),
              upperBound |-> Add(mean, Mul(t, std))]
    [] method = "iqr" ->
         LET values == SortAsc(NumericValues(rows, col))
             q1 == ToNumber(At(values, MathFloor(Mul(NumInt(Len(values)), Num(1, 4)))))
             q3 == ToNumber(At(values, MathFloor(Mul(NumInt(Len(values)), Num(3, 4)))))
             iqr == Sub(q3, q1)
             lowerBound == Sub(q1, Mul(Num(3, 2), iqr))
             upperBound == Add(q3, Mul(Num(3, 2), iqr))
         IN  [isOutlier |-> Lt(value, lowerBound) \/ Gt(value, upperBound),
              lowerBound |-> lowerBound,
              upperBound |-> upperBound]
    [] method = "winsorization" ->
         LET values == SortAsc(NumericValues(rows, col))
             lowerPercentile == IF threshold.kind = "object" THEN threshold.lower
                                ELSE Num(1, 100)
             upperPercentile == IF threshold.kind = "object" THEN threshold.upper
                                ELSE Num(99, 100)
             lowerIndex == MathFloor(Mul(NumInt(Len(values)), lowerPercentile))
             upperIndex == MathFloor(Mul(NumInt(Len(values)), upperPercentile))
             lowerBound == At(values, lowerIndex)
             upperBound == At(values, upperIndex)
         IN  [isOutlier |-> Lt(value, ToNumber(lowerBound)) \/ Gt(value, ToNumber(upperBound)),
              lowerBound |-> lowerBound,
              upperBound |-> upperBound]
    [] OTHER -> [isOutlier |-> FALSE, lowerBound |-> Undefined, upperBound |-> Undefined]

\* the null a map callback returns to mark its row for removal
RowNull == [c \in Keys |-> [t |-> "removed", n |-> 0, d |-> 1, s |-> ""]]

\* a cap that forgets the upper bound
TreatOutlier_CapLowOnly(newRow, col, value, check, action) ==
  IF action = "cap" /\ Lt(value, ToNumber(check.lowerBound))
  THEN [newRow EXCEPT ![col] = check.lowerBound]
  ELSE newRow

\* if (isOutlier) { ... } for the actions that keep the row
TreatOutlier(newRow, col, value, check, action) ==
  CASE action = "cap" ->
         LET low == IF Lt(value, ToNumber(check.lowerBound))
                    THEN [newRow EXCEPT ![col] = check.lowerBound] ELSE newRow
         IN  IF Gt(value, ToNumber(check.upperBound))
             THEN [low EXCEPT ![col] = check.upperBound] ELSE low
    [] action = "transform" ->
         [newRow EXCEPT ![col] = IF Gt(value, NumInt(0)) THEN MathLog(value) ELSE value]
    [] OTHER -> newRow

\* a remove that blanks the offending cell and keeps the row
RECURSIVE OutlierRow_RemoveCellOnly(_, _, _, _, _)
OutlierRow_RemoveCellOnly(rows, row, newRow, columns, outliers) ==
  IF columns = <<>> THEN newRow
  ELSE LET col == Head(columns)
           value == parseFloat(row[col])
           check == OutlierCheck(rows, col, value, outliers.method, outliers.threshold)
       IN  IF isNaN(value)
           THEN OutlierRow_RemoveCellOnly(rows, row, newRow, Tail(columns), outliers)
           ELSE IF check.isOutlier /\ outliers.action = "remove"
           THEN OutlierRow_RemoveCellOnly(rows, row, [newRow EXCEPT ![col] = Null],
                                          Tail(columns), outliers)
           ELSE IF check.isOutlier
           THEN OutlierRow_RemoveCellOnly(rows, row,
                                          TreatOutlier(newRow, col, value, check, outliers.action),
                                          Tail(columns), outliers)
           ELSE OutlierRow_RemoveCellOnly(rows, row, newRow, Tail(columns), outliers)

\* for (const col of columns) { ... } return newRow;
RECURSIVE OutlierRow(_, _, _, _, _)
OutlierRow(rows, row, newRow, columns, outliers) ==
  IF columns = <<>> THEN newRow
  ELSE LET col == Head(columns)
           value == parseFloat(row[col])
           check == OutlierCheck(rows, col, value, outliers.method, outliers.threshold)
       IN  IF isNaN(value) THEN OutlierRow(rows, row, newRow, Tail(columns), outliers)
           ELSE IF check.isOutlier /\ outliers.action = "remove" THEN RowNull
           ELSE IF check.isOutlier
           THEN OutlierRow(rows, row, TreatOutlier(newRow, col, value, check, outliers.action),
                           Tail(columns), outliers)
           ELSE OutlierRow(rows, row, newRow, Tail(columns), outliers)

RECURSIVE FilterNotNull(_)
FilterNotNull(rows) ==
  IF rows = <<>> THEN <<>>
  ELSE (IF Head(rows) = RowNull THEN <<>> ELSE <<Head(rows)>>) \o FilterNotNull(Tail(rows))

\* data.map(row => { const newRow = { ...row }; ... }): one newRow or null per row
OutlierRows(rows, outliers) ==
  [i \in 1..Len(rows) |-> OutlierRow(rows, rows[i], rows[i], outliers.columns, outliers)]

handleOutliers(rows, outliers) == FilterNotNull(OutlierRows(rows, outliers))

(***************************************************************************)
(* Rule validation stage                                                    *)
(***************************************************************************)
\* a greater-than rule that lets rows equal to the threshold pass
ViolatesRule_StrictlyLess(row, rule) ==
  rule.condition = "greater-than" /\ Lt(parseFloat(row[rule.column]), parseFloat(rule.value))

\* the switch on rule.condition; 'not-equals' and 'pattern' have no case
ViolatesRule(row, rule) ==
  LET value == row[rule.column]
  IN  CASE rule.condition = "greater-than" -> Le(parseFloat(value), parseFloat(rule.value))
        [] rule.condition = "less-than" -> Ge(parseFloat(value), parseFloat(rule.value))
        [] rule.condition = "equals" -> value # rule.value \/ isNaN(value)
        [] rule.condition = "range" ->
             Lt(parseFloat(value), rule.min) \/ Gt(parseFloat(value), rule.max)
        [] OTHER -> FALSE

\* the filter callback: false at the first violated rule whose action is remove
KeepsRow(row, rules) ==
  ~\E i \in 1..Len(rules) : ViolatesRule(row, rules[i]) /\ rules[i].action = "remove"

\* a rule stage that returns the rows it keeps last row first
RECURSIVE applyRules_NewestFirst(_, _)
applyRules_NewestFirst(rows, rules) ==
  IF rows = <<>> THEN <<>>
  ELSE applyRules_NewestFirst(Tail(rows), rules)
         \o (IF KeepsRow(Head(rows), rules) THEN <<Head(rows)>> ELSE <<>>)

RECURSIVE applyRules(_, _)
applyRules(rows, rules) ==
  IF rows = <<>> THEN <<>>
  ELSE (IF KeepsRow(Head(rows), rules) THEN <<Head(rows)>> ELSE <<>>)
         \o applyRules(Tail(rows), rules)

(***************************************************************************)
(* cleanData as a state machine: pc is the next statement of cleanData      *)
(***************************************************************************)
NoImputation == [present |-> FALSE, method |-> "", columns |-> <<>>]

Imputation(method, columns) == [present |-> TRUE, method |-> method, columns |-> columns]

NumberThreshold(v) == [kind |-> "number", value |-> v, lower |-> NaN, upper |-> NaN]

ObjectThreshold(lower, upper) == [kind |-> "object", value |-> NaN, lower |-> lower, upper |-> upper]

NoOutliers ==
  [present |-> FALSE, method |-> "", threshold |-> NumberThreshold(NaN), action |-> "",
   columns |-> <<>>]

Outliers(method, threshold, action, columns) ==
  [present |-> TRUE, method |-> method, threshold |-> threshold, action |-> action,
   columns |-> columns]

Rule(column, condition, value, action) ==
  [column |-> column, condition |-> condition, value |-> value, min |-> NaN, max |-> NaN,
   action |-> action]

RangeRule(column, min, max, action) ==
  [column |-> column, condition |-> "range", value |-> Undefined, min |-> min, max |-> max,
   action |-> action]

Config(imputation, outliers, rules) ==
  [imputation |-> imputation, outliers |-> outliers, rules |-> rules]

Row(x, y) == [c \in Keys |-> IF c = "x" THEN x ELSE y]

\* the sequences of at most n elements of S
RECURSIVE SeqsUpTo(_, _)
SeqsUpTo(S, n) ==
  IF n = 0 THEN {<<>>}
  ELSE LET shorter == SeqsUpTo(S, n - 1)
       IN  shorter \cup {Append(q, e) : q \in {r \in shorter : Len(r) = n - 1}, e \in S}

\* acceptedFiles[0] when nothing was dropped
NoFile == [present |-> FALSE, name |-> <<>>, outcome |-> "", errors |-> 0, data |-> <<>>]

\* the parameters of the analysis when none is asked for
NoAnalysis == [targetColumns |-> <<>>, weightColumn |-> "", confidenceLevel |-> Num(95, 100)]

\* cleanData(data, config) is entered: let cleanedData = [...data] is a new
\* array of the caller's row objects
Enter(inputs) ==
  /\ \E in \in inputs : data = in.data /\ config = in.config
  /\ analysis = NoAnalysis
  /\ file = NoFile /\ calls = <<>>
  /\ cleanedData = data
  /\ owner = [i \in 1..Len(data) |-> i]
  /\ inputRows = data
  /\ pc = "imputation"
  /\ history = <<>>

\* const newRow = { ...row }: newRow is the row itself, not a copy
SpreadCopy_SameObject(rowOwner) == rowOwner

\* const newRow = { ...row }: a new object, which no caller owns
SpreadCopy(rowOwner) == 0

\* the caller's row objects after a map callback assigned the cells of
\* newRows[i] through its newRow, an object owned by newOwners[i]
WriteRows(callerRows, newOwners, newRows) ==
  [j \in 1..Len(callerRows) |->
     IF \E i \in 1..Len(newRows) : newOwners[i] = j /\ newRows[i] # RowNull
     THEN newRows[CHOOSE i \in 1..Len(newRows) : newOwners[i] = j /\ newRows[i] # RowNull]
     ELSE callerRows[j]]

\* the owners of the elements a filter keeps
RECURSIVE KeepOwners(_, _)
KeepOwners(owners, keeps) ==
  IF owners = <<>> THEN <<>>
  ELSE (IF Head(keeps) THEN <<Head(owners)>> ELSE <<>>)
         \o KeepOwners(Tail(owners), Tail(keeps))

Stage(name, input, output) == [stage |-> name, input |-> input, output |-> output]

\* if (config.imputation) cleanedData = this.handleMissingValues(cleanedData, config.imputation)
ImputationStage ==
  /\ pc = "imputation"
  /\ IF config.imputation.present
     THEN \E out \in {handleMissingValues(cleanedData, config.imputation)} :
          LET newOwners == [i \in 1..Len(owner) |-> SpreadCopy(owner[i])]
          IN  IF Throws(out)
              THEN /\ pc' = "threw"
                   /\ UNCHANGED <<cleanedData, owner, inputRows, history>>
              ELSE /\ pc' = "outliers"
                   /\ cleanedData' = out
                   /\ owner' = newOwners
                   /\ inputRows' = WriteRows(inputRows, newOwners, out)
                   /\ history' = Append(history, Stage("imputation", cleanedData, out))
     ELSE /\ pc' = "outliers"
          /\ UNCHANGED <<cleanedData, owner, inputRows, history>>
  /\ UNCHANGED <<file, calls, data, config, analysis>>

\* an outlier stage that is handed the raw data instead of cleanedData
OutlierStage_OnRawData ==
  /\ pc = "outliers"
  /\ IF config.outliers.present
     THEN \E out \in {handleOutliers(data, config.outliers)} :
              /\ cleanedData' = out
              /\ owner' = [i \in 1..Len(out) |-> 0]
              /\ history' = Append(history, Stage("outliers", data, out))
     ELSE UNCHANGED <<cleanedData, owner, history>>
  /\ pc' = "rules"
  /\ UNCHANGED <<file, calls, data, config, analysis, inputRows>>

\* if (config.outliers) cleanedData = this.handleOutliers(cleanedData, config.outliers)
OutlierStage ==
  /\ pc = "outliers"
  /\ IF config.outliers.present
     THEN \* handleOutliers: the rows its map makes, then its filter
          \E newRows \in {OutlierRows(cleanedData, config.outliers)} :
          LET newOwners == [i \in 1..Len(owner) |-> SpreadCopy(owner[i])]
              out == FilterNotNull(newRows)
          IN  /\ cleanedData' = out
              /\ owner' = KeepOwners(newOwners, [i \in 1..Len(newRows) |-> newRows[i] # RowNull])
              /\ inputRows' = WriteRows(inputRows, newOwners, newRows)
              /\ history' = Append(history, Stage("outliers", cleanedData, out))
     ELSE UNCHANGED <<cleanedData, owner, inputRows, history>>
  /\ pc' = "rules"
  /\ UNCHANGED <<file, calls, data, config, analysis>>

\* if (config.rules && config.rules.length > 0) cleanedData = this.applyRules(cleanedData, config.rules)
RuleStage ==
  /\ pc = "rules"
  /\ IF Len(config.rules) > 0
     THEN \E out \in {applyRules(cleanedData, config.rules)} :
              /\ cleanedData' = out
              /\ owner' = KeepOwners(owner, [i \in 1..Len(cleanedData) |->
                                                KeepsRow(cleanedData[i], config.rules)])
              /\ history' = Append(history, Stage("rules", cleanedData, out))
     ELSE UNCHANGED <<cleanedData, owner, history>>
  /\ pc' = "return"
  /\ UNCHANGED <<file, calls, data, config, analysis, inputRows>>

\* return cleanedData
Return ==
  /\ pc = "return"
  /\ pc' = "done"
  /\ UNCHANGED <<file, calls, data, config, analysis, cleanedData, owner, inputRows, history>>

Next == ImputationStage \/ OutlierStage \/ RuleStage \/ Return

(***************************************************************************)
(* Statistical analysis (StatisticalAnalysis)                               *)
(***************************************************************************)
\* row[column]: a column the row has no key for reads undefined
Cell(row, column) == IF column \in DOMAIN row THEN row[column] ELSE Undefined

\* a || b on numbers: 0 and NaN are falsy
OrElse(a, b) == IF a.t = "nan" \/ (a.t = "num" /\ a.n = 0) THEN b ELSE a

\* Math.pow(a, 2)
MathPow2(a) == Mul(a, a)

\* the step table; alpha is not used
getTCriticalValue(degreesOfFreedom, alpha) ==
  IF degreesOfFreedom >= 30 THEN Num(196, 100)
  ELSE IF degreesOfFreedom >= 20 THEN Num(2086, 1000)
  ELSE IF degreesOfFreedom >= 10 THEN Num(2228, 1000)
  ELSE Num(2571, 1000)

\* { value: parseFloat(row[column]), weight: weightColumn ? parseFloat(row[weightColumn]) || 1 : 1 }
EstimateItem(row, column, weightColumn) ==
  [value |-> parseFloat(Cell(row, column)),
   weight |-> IF weightColumn # ""
              THEN OrElse(parseFloat(Cell(row, weightColumn)), NumInt(1))
              ELSE NumInt(1)]

\* .filter(item => !isNaN(item.value))
RECURSIVE FilterItems(_)
FilterItems(items) ==
  IF items = <<>> THEN <<>>
  ELSE (IF isNaN(Head(items).value) THEN <<>> ELSE <<Head(items)>>)
         \o FilterItems(Tail(items))

\* the (value, weight) pairs of a column, unparseable values kept
EstimateItems_KeepsUnparseable(rows, column, weightColumn) ==
  [i \in 1..Len(rows) |-> EstimateItem(rows[i], column, weightColumn)]

EstimateItems(rows, column, weightColumn) ==
  FilterItems([i \in 1..Len(rows) |-> EstimateItem(rows[i], column, weightColumn)])

\* a weighted mean that forgets to divide by the total weight
calculateWeightedMean_Unnormalised(values) ==
  ReduceSum([i \in 1..Len(values) |-> Mul(values[i].value, values[i].weight)])

calculateWeightedMean(values) ==
  LET totalWeightedValue ==
        ReduceSum([i \in 1..Len(values) |-> Mul(values[i].value, values[i].weight)])
      totalWeight == ReduceSum([i \in 1..Len(values) |-> values[i].weight])
  IN  Div(totalWeightedValue, totalWeight)

calculateStandardError(values, mean) ==
  LET weightedVariance ==
        Div(ReduceSum([i \in 1..Len(values) |->
                         Mul(values[i].weight, MathPow2(Sub(values[i].value, mean)))]),
            ReduceSum([i \in 1..Len(values) |-> values[i].weight]))
  IN  MathSqrt(Div(weightedVariance, NumInt(Len(values))))

\* an EstimateResult whose margin of error uses the critical value of the
\* column's own sample size
EstimateResult_OwnSampleSize(column, values, tCritical) ==
  LET weightedMean == calculateWeightedMean(values)
      standardError == calculateStandardError(values, weightedMean)
      marginOfError == Mul(getTCriticalValue(Len(values) - 1, NumInt(0)), standardError)
  IN  [variable |-> column,
       estimate |-> weightedMean,
       standardError |-> standardError,
       marginOfError |-> marginOfError,
       confidenceInterval |-> <<Sub(weightedMean, marginOfError),
                                Add(weightedMean, marginOfError)>>,
       sampleSize |-> Len(values)]

\* the EstimateResult pushed for one column
EstimateResult(column, values, tCritical) ==
  LET weightedMean == calculateWeightedMean(values)
      standardError == calculateStandardError(values, weightedMean)
      marginOfError == Mul(tCritical, standardError)
  IN  [variable |-> column,
       estimate |-> weightedMean,
       standardError |-> standardError,
       marginOfError |-> marginOfError,
       confidenceInterval |-> <<Sub(weightedMean, marginOfError),
                                Add(weightedMean, marginOfError)>>,
       sampleSize |-> Len(values)]

\* targetColumns.forEach(column => { ... if (values.length === 0) return; ... })
RECURSIVE EstimateColumns(_, _, _, _)
EstimateColumns(rows, targetColumns, weightColumn, tCritical) ==
  IF targetColumns = <<>> THEN <<>>
  ELSE LET column == targetColumns[Len(targetColumns)]
           values == EstimateItems(rows, column, weightColumn)
           results == EstimateColumns(rows, SubSeq(targetColumns, 1, Len(targetColumns) - 1),
                                      weightColumn, tCritical)
       IN  IF Len(values) = 0 THEN results
           ELSE Append(results, EstimateResult(column, values, tCritical))

calculateEstimates(rows, targetColumns, weightColumn, confidenceLevel) ==
  LET alpha == Sub(NumInt(1), confidenceLevel)
      tCritical == getTCriticalValue(Len(rows) - 1, Div(alpha, NumInt(2)))
  IN  EstimateColumns(rows, targetColumns, weightColumn, tCritical)

\* Number(a.toFixed(4)): the nearest multiple of 1/10000, halves away from zero
ToFixed4(a) ==
  IF a.t # "num" THEN a
  ELSE LET scaled == Mul(MathAbs(a), NumInt(10000))
           n == (2 * scaled.n + scaled.d) \div (2 * scaled.d)
       IN  Num(Sign(a.n) * n, 10000)

\* data.map(row => parseFloat(row[column])).filter(v => !isNaN(v)), sorted
SortedValues(rows, column) ==
  SortAsc(FilterNotNaN([i \in 1..Len(rows) |-> parseFloat(Cell(rows[i], column))]))

\* the statistics of a non-empty sorted array
Statistics(column, values) ==
  LET mean == Div(ReduceSum(values), NumInt(Len(values)))
      median == IF Len(values) % 2 = 0
                THEN Div(Add(ToNumber(At(values, Len(values) \div 2 - 1)),
                             ToNumber(At(values, Len(values) \div 2))), NumInt(2))
                ELSE At(values, Len(values) \div 2)
      variance == Div(ReduceSum([i \in 1..Len(values) |-> MathPow2(Sub(values[i], mean))]),
                      NumInt(Len(values)))
      std == MathSqrt(variance)
  IN  [column |-> column, count |-> Len(values), mean |-> ToFixed4(mean),
       median |-> ToFixed4(median), std |-> ToFixed4(std),
       min |-> At(values, 0), max |-> At(values, Len(values) - 1)]

\* the callback without its guard for a column of no values
DescriptiveStatistic_Unguarded(rows, column) ==
  Statistics(column, SortedValues(rows, column))

\* the callback of columns.map(column => { ... })
DescriptiveStatistic(rows, column) ==
  LET values == SortedValues(rows, column)
  IN  IF Len(values) = 0
      THEN [column |-> column, count |-> 0, mean |-> NumInt(0), median |-> NumInt(0),
            std |-> NumInt(0), min |-> NumInt(0), max |-> NumInt(0)]
      ELSE Statistics(column, values)

calculateDescriptiveStatistics(rows, columns) ==
  [i \in 1..Len(columns) |-> DescriptiveStatistic(rows, columns[i])]

(***************************************************************************)
(* The App's run: cleanData, then the two analyses on the cleaned rows      *)
(***************************************************************************)
Analysis(targetColumns, weightColumn, confidenceLevel) ==
  [targetColumns |-> targetColumns, weightColumn |-> weightColumn,
   confidenceLevel |-> confidenceLevel]

\* cleanData(surveyData.rows, cleaningConfig) is entered by the App
EnterRun(inputs) ==
  /\ \E in \in inputs : data = in.data /\ config = in.config /\ analysis = in.analysis
  /\ file = NoFile /\ calls = <<>>
  /\ cleanedData = data
  /\ owner = [i \in 1..Len(data) |-> i]
  /\ inputRows = data
  /\ pc = "imputation"
  /\ history = <<>>

\* const estimates = StatisticalAnalysis.calculateEstimates(cleaned, ...): the
\* callbacks build new item objects and assign no cell of a row
CalculateEstimates ==
  /\ pc = "done"
  /\ history' = Append(history,
                       Stage("calculateEstimates", cleanedData,
                             calculateEstimates(cleanedData, analysis.targetColumns,
                                                analysis.weightColumn,
                                                analysis.confidenceLevel)))
  /\ inputRows' = WriteRows(inputRows, <<>>, <<>>)
  /\ pc' = "estimated"
  /\ UNCHANGED <<file, calls, data, config, analysis, cleanedData, owner>>

\* const descriptiveStats = StatisticalAnalysis.calculateDescriptiveStatistics(cleaned, ...):
\* values is a new array, sorted in place
CalculateDescriptiveStatistics ==
  /\ pc = "estimated"
  /\ history' = Append(history,
                       Stage("calculateDescriptiveStatistics", cleanedData,
                             calculateDescriptiveStatistics(cleanedData,
                                                            analysis.targetColumns)))
  /\ inputRows' = WriteRows(inputRows, <<>>, <<>>)
  /\ pc' = "analyzed"
  /\ UNCHANGED <<file, calls, data, config, analysis, cleanedData, owner>>

NextRun ==
  \/ ImputationStage
  \/ OutlierStage
  \/ RuleStage
  \/ Return
  \/ CalculateEstimates
  \/ CalculateDescriptiveStatistics

(***************************************************************************)
(* Inputs of the imputation stage                                           *)
(***************************************************************************)
ImputeCells == {Null, Undefined, EmptyString, Str("abc"), NumInt(1), NumInt(2)}

\* rows = [{x:1},{x:2},{x:3},{x:null},{x:5}]
MeanExample ==
  <<Row(NumInt(1), NumInt(1)), Row(NumInt(2), NumInt(1)), Row(NumInt(3), NumInt(1)),
    Row(Null, NumInt(1)), Row(NumInt(5), NumInt(1))>>

ImputeData ==
  SeqsUpTo({Row(x, NumInt(1)) : x \in ImputeCells}, MaxRows) \cup {MeanExample}

ImputeMethods == {"mean", "median", "mode", "knn", "forward-fill", "backward-fill", "remove"}

ImputeConfigs ==
  {Config(Imputation(m, cols), NoOutliers, <<>>) :
     m \in ImputeMethods, cols \in {<<"x">>, <<"y", "x">>}}
    \cup {Config(NoImputation, NoOutliers, <<>>)}

ImputeInputs == {[data |-> dt, config |-> cf] : dt \in ImputeData, cf \in ImputeConfigs}

InitImpute == Enter(ImputeInputs)

SpecImpute == InitImpute /\ [][Next]_vars

(***************************************************************************)
(* Properties of the imputation stage                                       *)
(***************************************************************************)
\* the imputation stage has run and returned
Imputed ==
  /\ config.imputation.present
  /\ Len(history) >= 1
  /\ history[1].stage = "imputation"

ImputedWith(methods) == Imputed /\ config.imputation.method \in methods

SelectedColumns(section) == {section.columns[i] : i \in 1..Len(section.columns)}

\* C1: after the imputation stage ran with method mean, median or mode, no
\* cell of a selected column of its output is null, undefined or ''.
C1_NoMissingAfterImputation ==
  ImputedWith({"mean", "median", "mode"}) =>
    \A i \in 1..Len(history[1].output) :
      \A col \in SelectedColumns(config.imputation) :
        ~IsMissing(history[1].output[i][col])

\* the rows of the input that have no missing value in any selected column
RECURSIVE RowsWithoutMissing(_, _)
RowsWithoutMissing(rows, columns) ==
  IF rows = <<>> THEN <<>>
  ELSE (IF \E col \in columns : IsMissing(Head(rows)[col]) THEN <<>> ELSE <<Head(rows)>>)
         \o RowsWithoutMissing(Tail(rows), columns)

\* C2: with method remove the output of the imputation stage is exactly the
\* input rows, in order, that have no missing value in any selected column.
C2_RemoveDropsRowsWithMissing ==
  ImputedWith({"remove"}) =>
    history[1].output =
      RowsWithoutMissing(history[1].input, SelectedColumns(config.imputation))

\* the sum of the parsed values of the rows with index in S
RECURSIVE SumOfRows(_, _, _)
SumOfRows(rows, column, S) ==
  IF S = {} THEN NumInt(0)
  ELSE LET i == CHOOSE j \in S : TRUE
       IN  Add(parseFloat(rows[i][column]), SumOfRows(rows, column, S \ {i}))

\* v is the arithmetic mean of the non-missing numeric values of the column
\* (NaN when there are none)
IsMeanOf(v, rows, column) ==
  LET present == {i \in 1..Len(rows) : ~isNaN(parseFloat(rows[i][column]))}
  IN  IF present = {} THEN isNaN(v)
      ELSE /\ v.t = "num"
           /\ Mul(v, NumInt(Cardinality(present))) = SumOfRows(rows, column, present)

\* C4: with mean imputation every missing cell of a selected column becomes
\* the arithmetic mean of the column's non-missing numeric values in the
\* stage's input (2.75 for x = 1,2,3,missing,5), whatever the row order and
\* whatever was filled before; the other cells are unchanged.
C4_MeanImputationUsesInputMean ==
  ImputedWith({"mean"}) =>
    /\ Len(history[1].output) = Len(history[1].input)
    /\ \A i \in 1..Len(history[1].input) :
         \A col \in Keys :
           IF col \in SelectedColumns(config.imputation) /\ IsMissing(history[1].input[i][col])
           THEN IsMeanOf(history[1].output[i][col], history[1].input, col)
           ELSE history[1].output[i][col] = history[1].input[i][col]
    /\ (history[1].input = MeanExample /\ "x" \in SelectedColumns(config.imputation)) =>
         history[1].output[4]["x"] = Num(11, 4)

C4_Witness ==
  /\ ImputedWith({"mean"})
  /\ data = MeanExample
  /\ cleanedData[4]["x"] = Num(11, 4)
  /\ pc = "done"

\* the nearest row before (forward) or after row i that has a value in the
\* column, 0 when there is none
NearestPresent(rows, i, col, forward) ==
  LET S == {j \in 1..Len(rows) :
              ~IsMissing(rows[j][col]) /\ (IF forward THEN j < i ELSE j > i)}
  IN  IF S = {} THEN 0
      ELSE CHOOSE j \in S : \A k \in S : IF forward THEN k <= j ELSE k >= j

\* C12: with method forward-fill (backward-fill) every missing cell of a
\* selected column that has a non-missing value in some preceding (following)
\* row becomes the nearest preceding (following) non-missing value of that
\* column; the stage is not a no-op.
C12_FillPropagatesNearestValue ==
  ImputedWith({"forward-fill", "backward-fill"}) =>
    /\ Len(history[1].output) = Len(history[1].input)
    /\ \A i \in 1..Len(history[1].input) :
         \A col \in SelectedColumns(config.imputation) :
           LET j == NearestPresent(history[1].input, i, col,
                                   config.imputation.method = "forward-fill")
           IN  (IsMissing(history[1].input[i][col]) /\ j # 0) =>
                 history[1].output[i][col] = history[1].input[j][col]

(***************************************************************************)
(* Inputs of KNN imputation: rows with a value for x and a numeric y, and   *)
(* one row whose x is missing, first or last                                *)
(***************************************************************************)
MaxComplete == 5

KnnCompleteRows == {Row(NumInt(x), NumInt(y)) : x \in {1, 2}, y \in {1, 2}}

KnnTargetRows == {Row(Null, NumInt(1)), Row(EmptyString, EmptyString)}

\* rows to fill, one candidate that shares the feature y with them and
\* candidates whose y does not parse; y is numeric in 3 of 4 and 6 of 8 rows
KnnSparseExamples ==
  {<<Row(Null, NumInt(1)), Row(Null, NumInt(1)), Row(NumInt(1), NumInt(1)),
     Row(NumInt(2), Str("abc"))>>,
   <<Row(Null, NumInt(1)), Row(Null, NumInt(1)), Row(Null, NumInt(1)),
     Row(Null, NumInt(1)), Row(Null, NumInt(1)), Row(NumInt(1), NumInt(1)),
     Row(NumInt(2), Str("abc")), Row(NumInt(2), Str("abc"))>>}

\* n copies of a row
Copies(n, row) == [i \in 1..n |-> row]

\* a row to fill followed by 3 rows whose y does not parse and 6 whose y is
\* 1 (y parses in exactly 7 of the 10 rows); and a row to fill followed by 5
\* rows whose y is 5, 4 whose y is 1 and 5 whose y does not parse (y parses
\* in 10 of the first 10 rows and in 10 of all 15)
KnnSampleExamples ==
  {<<Row(Null, NumInt(1))>> \o Copies(3, Row(NumInt(2), Str("abc")))
     \o Copies(6, Row(NumInt(1), NumInt(1))),
   <<Row(Null, NumInt(1))>> \o Copies(5, Row(NumInt(2), NumInt(5)))
     \o Copies(4, Row(NumInt(1), NumInt(1))) \o Copies(5, Row(NumInt(2), Str("abc")))}

KnnData ==
  LET complete == SeqsUpTo(KnnCompleteRows, MaxComplete)
  IN  {<<t>> \o c : t \in KnnTargetRows, c \in complete}
        \cup {c \o <<t>> : t \in KnnTargetRows, c \in complete}
        \cup KnnSparseExamples \cup KnnSampleExamples

KnnInputs ==
  {[data |-> dt, config |-> Config(Imputation("knn", <<"x">>), NoOutliers, <<>>)] :
     dt \in KnnData}

InitKnn == Enter(KnnInputs)

SpecKnn == InitKnn /\ [][Next]_vars

\* the nearest neighbours knnImputation selects for a row
NearestNeighbors(rows, targetRow, targetColumn) ==
  LET completeRows == FilterComplete(rows, targetColumn)
      numericColumns == FilterNumericColumns(rows, Headers, targetColumn)
      distances == [i \in 1..Len(completeRows) |->
                      [row |-> completeRows[i],
                       distance |-> calculateDistance(targetRow, completeRows[i],
                                                      numericColumns, "euclidean")]]
  IN  SubSeq(SortByDistance(distances), 1, Min(KnnK, Len(distances)))

\* the inverse-distance-weighted average of the neighbours' target values
WeightedAverage(neighbors, targetColumn) ==
  LET acc == WeightedFold(neighbors, targetColumn)
  IN  Div(acc.weightedSum, acc.totalWeight)

\* the column holds numbers wherever it holds a value
NumericTarget(rows, col) ==
  \A i \in 1..Len(rows) : IsMissing(rows[i][col]) \/ rows[i][col].t = "num"

\* C3: when KNN imputation fills a missing cell of a numeric target column,
\* the imputed value is the inverse-distance-weighted average of the target
\* values of the selected nearest neighbours, not their mode.
C3_KnnNumericIsWeightedAverage ==
  ImputedWith({"knn"}) =>
    \A i \in 1..Len(history[1].input) :
      \A col \in SelectedColumns(config.imputation) :
        LET neighbors == NearestNeighbors(history[1].input, history[1].input[i], col)
        IN  (/\ IsMissing(history[1].input[i][col])
             /\ NumericTarget(history[1].input, col)
             /\ Len(neighbors) > 0
             /\ Gt(WeightedFold(neighbors, col).totalWeight, NumInt(0))) =>
              parseFloat(history[1].output[i][col]) = WeightedAverage(neighbors, col)

\* the rows that have a value in the target column and share a numeric
\* feature (a column other than the target that parses in both) with row i
SharingCandidates(rows, i, col) ==
  {j \in 1..Len(rows) :
     /\ ~IsMissing(rows[j][col])
     /\ \E f \in Keys \ {col} :
          ~isNaN(parseFloat(rows[i][f])) /\ ~isNaN(parseFloat(rows[j][f]))}

\* C5: KNN imputation (k = 5) of a missing cell does not return the
\* column-mean fallback when at least 5 rows have a value in the target column
\* and share a numeric feature with the target row.
C5_KnnNoFallbackWithFiveCandidates ==
  ImputedWith({"knn"}) =>
    \A i \in 1..Len(history[1].input) :
      \A col \in SelectedColumns(config.imputation) :
        (/\ IsMissing(history[1].input[i][col])
         /\ Cardinality(SharingCandidates(history[1].input, i, col)) >= 5) =>
          LET result == knnResult(history[1].input, history[1].input[i], col, KnnK, "euclidean")
          IN  /\ result.via \notin {"mean-no-complete-rows", "mean-zero-weight"}
              /\ history[1].output[i][col] = result.value

C5_Witness ==
  /\ ImputedWith({"knn"})
  /\ pc = "done"
  /\ \E i \in 1..Len(data) :
       /\ IsMissing(data[i]["x"])
       /\ Cardinality(SharingCandidates(data, i, "x")) >= 5
       /\ ~IsMissing(cleanedData[i]["x"])

(***************************************************************************)
(* Inputs of the outlier stage                                              *)
(***************************************************************************)
MaxOutlierRows == 5

OutlierCells == {NumInt(0), NumInt(1), NumInt(10)}

\* the column [1,2,3,4,100]
IqrExample ==
  <<Row(NumInt(1), NumInt(1)), Row(NumInt(2), NumInt(1)), Row(NumInt(3), NumInt(1)),
    Row(NumInt(4), NumInt(1)), Row(NumInt(100), NumInt(1))>>

\* columns that also hold text, a missing value and a numeric string
MixedExamples ==
  {<<Row(Str("abc"), NumInt(1)), Row(NumInt(0), NumInt(1)), Row(EmptyString, NumInt(1))>> \o dt :
     dt \in SeqsUpTo({Row(x, NumInt(1)) : x \in {NumInt(0), String(NumInt(1)), NumInt(10)}}, 3)}

OutlierData ==
  SeqsUpTo({Row(x, NumInt(1)) : x \in OutlierCells}, MaxOutlierRows)
    \cup {IqrExample} \cup MixedExamples

DefaultIqrThreshold == NumberThreshold(Num(3, 2))

OutlierMethods ==
  {[method |-> "iqr", threshold |-> DefaultIqrThreshold],
   [method |-> "iqr", threshold |-> NumberThreshold(NumInt(3))],
   [method |-> "z-score", threshold |-> NumberThreshold(NumInt(1))],
   [method |-> "z-score", threshold |-> NumberThreshold(NumInt(3))],
   [method |-> "winsorization", threshold |-> ObjectThreshold(Num(5, 100), Num(95, 100))],
   [method |-> "winsorization", threshold |-> ObjectThreshold(Num(1, 4), Num(3, 4))],
   [method |-> "winsorization", threshold |-> NumberThreshold(Num(3, 2))]}

OutlierActions == {"cap", "remove", "transform"}

OutlierConfigs ==
  {Config(NoImputation, Outliers(m.method, m.threshold, a, <<"y", "x">>), <<>>) :
     m \in OutlierMethods, a \in OutlierActions}

OutlierInputs == {[data |-> dt, config |-> cf] : dt \in OutlierData, cf \in OutlierConfigs}

InitOutliers == Enter(OutlierInputs)

SpecOutliers == InitOutliers /\ [][Next]_vars

(***************************************************************************)
(* Properties of the outlier stage                                          *)
(***************************************************************************)
\* the record of the outlier stage, once it has run
OutlierRun == history[Len(history)]

Outliered(methods, actions) ==
  /\ config.outliers.present
  /\ Len(history) >= 1
  /\ OutlierRun.stage = "outliers"
  /\ config.outliers.method \in methods
  /\ config.outliers.action \in actions

Parsed(rows, col) == [i \in 1..Len(rows) |-> parseFloat(rows[i][col])]

\* v is the element at 0-based index k of the ascending numeric values of
\* the column: at most k values are smaller and more than k are not greater
IsOrderStatistic(v, rows, col, k) ==
  LET ps == Parsed(rows, col)
  IN  /\ \E i \in 1..Len(rows) : ps[i] = v
      /\ Cardinality({i \in 1..Len(rows) : Lt(ps[i], v)}) <= k
      /\ Cardinality({i \in 1..Len(rows) : Le(ps[i], v)}) > k

NumericCount(rows, col) == Cardinality({i \in 1..Len(rows) : ~isNaN(parseFloat(rows[i][col]))})

\* the numbers that are order statistic k of the column
OrderStatistics(rows, col, k) ==
  {Parsed(rows, col)[i] : i \in {j \in 1..Len(rows) : IsOrderStatistic(Parsed(rows, col)[j], rows, col, k)}}

\* [Q1 - 1.5 IQR, Q3 + 1.5 IQR] with Q1, Q3 at floor(n/4), floor(3n/4)
IqrBounds(rows, col) ==
  LET n == NumericCount(rows, col)
      q1 == CHOOSE v \in OrderStatistics(rows, col, n \div 4) : TRUE
      q3 == CHOOSE v \in OrderStatistics(rows, col, (3 * n) \div 4) : TRUE
  IN  [lower |-> Sub(q1, Mul(Num(3, 2), Sub(q3, q1))),
       upper |-> Add(q3, Mul(Num(3, 2), Sub(q3, q1)))]

\* every cell of out is the cell of in clamped to the bounds of its column,
\* for the selected columns, and the cell of in elsewhere
ClampedTo(in, out, columns, Bounds(_)) ==
  /\ Len(out) = Len(in)
  /\ \A i \in 1..Len(in) :
       \A col \in Keys :
         LET v == parseFloat(in[i][col])
         IN  IF col \in columns /\ ~isNaN(v) /\ Gt(v, Bounds(col).upper)
             THEN out[i][col] = Bounds(col).upper
             ELSE IF col \in columns /\ ~isNaN(v) /\ Lt(v, Bounds(col).lower)
             THEN out[i][col] = Bounds(col).lower
             ELSE out[i][col] = in[i][col]

\* C6: with method iqr (default threshold) and action cap, every numeric value
\* of a selected column above the upper bound of the stage's input becomes
\* exactly that bound, every value below the lower bound becomes the lower
\* bound, nothing else changes; in [1,2,3,4,100] the 100 becomes the upper
\* bound 7.
C6_IqrCapClampsToBounds ==
  (Outliered({"iqr"}, {"cap"}) /\ config.outliers.threshold = DefaultIqrThreshold) =>
    LET Bounds(col) == IqrBounds(OutlierRun.input, col)
    IN  /\ ClampedTo(OutlierRun.input, OutlierRun.output,
                     SelectedColumns(config.outliers), Bounds)
        /\ OutlierRun.input = IqrExample =>
             /\ Bounds("x").upper = NumInt(7)
             /\ OutlierRun.output[5]["x"] = NumInt(7)

C6_Witness ==
  /\ Outliered({"iqr"}, {"cap"})
  /\ config.outliers.threshold = DefaultIqrThreshold
  /\ data = IqrExample
  /\ pc = "done"
  /\ cleanedData[5]["x"] = NumInt(7)

\* the winsorization fractions of the configuration
WinsorFractions ==
  IF config.outliers.threshold.kind = "object"
  THEN [lower |-> config.outliers.threshold.lower, upper |-> config.outliers.threshold.upper]
  ELSE [lower |-> Num(1, 100), upper |-> Num(99, 100)]

\* C7: with method winsorization and action cap, every numeric value of a
\* selected column of the output lies between the order statistics at
\* floor(n lower) and floor(n upper) of the stage's input column.
C7_WinsorizationCapWithinBounds ==
  Outliered({"winsorization"}, {"cap"}) =>
    \A col \in SelectedColumns(config.outliers) :
      LET in == OutlierRun.input
          n == NumericCount(in, col)
          lowerIndex == MathFloor(Mul(NumInt(n), WinsorFractions.lower))
          upperIndex == MathFloor(Mul(NumInt(n), WinsorFractions.upper))
      IN  \A i \in 1..Len(OutlierRun.output) :
            LET v == parseFloat(OutlierRun.output[i][col])
            IN  ~isNaN(v) =>
                  /\ \A b \in OrderStatistics(in, col, lowerIndex) : Ge(v, b)
                  /\ \A b \in OrderStatistics(in, col, upperIndex) : Le(v, b)

\* a value above the upper bound and a value below the lower bound were capped
C7_Witness ==
  /\ Outliered({"winsorization"}, {"cap"})
  /\ pc = "done"
  /\ \E i, j \in 1..Len(data) :
       /\ Gt(parseFloat(data[i]["x"]), parseFloat(cleanedData[i]["x"]))
       /\ Lt(parseFloat(data[j]["x"]), parseFloat(cleanedData[j]["x"]))

\* the configurations for which the bounds the code computes are the bounds
\* of the method: z-score with a number, iqr with the default 1.5,
\* winsorization with a pair of fractions
MethodBoundsApply ==
  \/ config.outliers.method = "z-score" /\ config.outliers.threshold.kind = "number"
  \/ config.outliers.method = "iqr" /\ config.outliers.threshold = DefaultIqrThreshold
  \/ config.outliers.method = "winsorization" /\ config.outliers.threshold.kind = "object"

\* the bounds of a column by method (none for a column without numeric value)
MethodBounds(rows, col) ==
  CASE NumericCount(rows, col) = 0 -> [lower |-> NaN, upper |-> NaN]
    [] config.outliers.method = "z-score" ->
         LET mean == calculateColumnMean(rows, col)
             spread == Mul(config.outliers.threshold.value, calculateColumnStd(rows, col))
         IN  [lower |-> Sub(mean, spread), upper |-> Add(mean, spread)]
    [] config.outliers.method = "iqr" -> IqrBounds(rows, col)
    [] config.outliers.method = "winsorization" ->
         LET n == NumInt(NumericCount(rows, col))
         IN  [lower |-> CHOOSE v \in OrderStatistics(rows, col,
                          MathFloor(Mul(n, config.outliers.threshold.lower))) : TRUE,
              upper |-> CHOOSE v \in OrderStatistics(rows, col,
                          MathFloor(Mul(n, config.outliers.threshold.upper))) : TRUE]

\* the row holds, in a selected column, a numeric value outside the bounds
\* of that column
Offends(row, columns, bounds) ==
  \E col \in columns :
    LET v == parseFloat(row[col])
    IN  ~isNaN(v) /\ (Lt(v, bounds[col].lower) \/ Gt(v, bounds[col].upper))

\* the rows that do not offend, in order
RECURSIVE RowsWithinBounds(_, _, _)
RowsWithinBounds(rows, columns, bounds) ==
  IF rows = <<>> THEN <<>>
  ELSE (IF Offends(Head(rows), columns, bounds) THEN <<>> ELSE <<Head(rows)>>)
         \o RowsWithinBounds(Tail(rows), columns, bounds)

\* the bounds of the selected columns in the input of the outlier stage
InputBounds == [col \in SelectedColumns(config.outliers) |-> MethodBounds(OutlierRun.input, col)]

IqrBoundsWith(rows, col, t) ==
  LET n == NumericCount(rows, col)
      q1 == CHOOSE v \in OrderStatistics(rows, col, n \div 4) : TRUE
      q3 == CHOOSE v \in OrderStatistics(rows, col, (3 * n) \div 4) : TRUE
  IN  [lower |-> Sub(q1, Mul(t, Sub(q3, q1))),
       upper |-> Add(q3, Mul(t, Sub(q3, q1)))]

\* C19: with method iqr the bounds used for a column are
\* [Q1 - t IQR, Q3 + t IQR] with t the configured threshold, Q1 and Q3 the
\* sorted numeric values at indices floor(n 0.25) and floor(n 0.75): under
\* action cap the output is the input clamped to these bounds.
C19_IqrBoundsUseConfiguredThreshold ==
  (Outliered({"iqr"}, {"cap"}) /\ config.outliers.threshold.kind = "number") =>
    LET Bounds(col) == IqrBoundsWith(OutlierRun.input, col, config.outliers.threshold.value)
    IN  ClampedTo(OutlierRun.input, OutlierRun.output,
                  SelectedColumns(config.outliers), Bounds)

(***************************************************************************)
(* The outlier stage applied to its own output (action cap)                 *)
(***************************************************************************)
CapConfigs ==
  {Config(NoImputation, Outliers(m.method, m.threshold, "cap", <<"y", "x">>), <<>>) :
     m \in OutlierMethods}

InitReapply ==
  /\ \E dt \in OutlierData, cf \in CapConfigs : data = dt /\ config = cf
  /\ analysis = NoAnalysis
  /\ file = NoFile /\ calls = <<>>
  /\ cleanedData = data
  /\ owner = [i \in 1..Len(data) |-> i]
  /\ inputRows = data
  /\ pc = "apply"
  /\ history = <<>>

\* cleanedData = this.handleOutliers(cleanedData, config.outliers), the first
\* time on the data and the second time on the first result
Reapply ==
  /\ pc \in {"apply", "reapply"}
  /\ \E newRows \in {OutlierRows(cleanedData, config.outliers)} :
     LET newOwners == [i \in 1..Len(owner) |-> SpreadCopy(owner[i])]
         out == FilterNotNull(newRows)
     IN  /\ cleanedData' = out
         /\ owner' = KeepOwners(newOwners, [i \in 1..Len(newRows) |-> newRows[i] # RowNull])
         /\ inputRows' = WriteRows(inputRows, newOwners, newRows)
         /\ history' = Append(history, Stage("outliers", cleanedData, out))
  /\ pc' = IF pc = "apply" THEN "reapply" ELSE "reapplied"
  /\ UNCHANGED <<file, calls, data, config, analysis>>

SpecReapply == InitReapply /\ [][Reapply]_vars

\* C8 as stated: for every outlier method, applying the stage with action cap
\* to the output of a previous application changes no cell.
C8_CapIdempotentEveryMethod ==
  pc = "reapplied" => history[2].output = history[2].input

\* C8 amended: for the methods iqr and winsorization, applying the stage with
\* action cap to the output of a previous application returns rows equal to
\* its input.
C8_CapIdempotentIqrWinsorization ==
  (pc = "reapplied" /\ config.outliers.method \in {"iqr", "winsorization"}) =>
    history[2].output = history[2].input

\* the first application capped a cell and the second left everything alone
C8_Witness ==
  /\ pc = "reapplied"
  /\ config.outliers.method \in {"iqr", "winsorization"}
  /\ history[1].output # history[1].input
  /\ history[2].output = history[2].input

(***************************************************************************)
(* Inputs of the rule stage                                                 *)
(***************************************************************************)
MaxRuleRows == 2

MaxRules == 1

RuleCells == {NumInt(-1), NumInt(0), NumInt(1), Str("abc")}

RuleData == SeqsUpTo({Row(x, NumInt(1)) : x \in RuleCells}, MaxRuleRows)

\* a threshold typed as a number and one left as the text of the input field
RuleValues == {NumInt(0), String(NumInt(1))}

RuleActions == {"remove", "flag", "transform"}

RuleSet ==
  {Rule("x", c, v, a) :
     c \in {"greater-than", "less-than", "equals", "not-equals", "pattern"},
     v \in RuleValues, a \in RuleActions}
    \cup {RangeRule("x", NumInt(0), NumInt(1), a) : a \in RuleActions}

RuleConfigs == {Config(NoImputation, NoOutliers, rs) : rs \in SeqsUpTo(RuleSet, MaxRules)}

RuleInputs == {[data |-> dt, config |-> cf] : dt \in RuleData, cf \in RuleConfigs}

InitRules == Enter(RuleInputs)

SpecRules == InitRules /\ [][Next]_vars

(***************************************************************************)
(* Properties of the rule stage                                             *)
(***************************************************************************)
RuleRun == history[Len(history)]

RulesApplied == Len(history) >= 1 /\ RuleRun.stage = "rules"

RemoveRules == {i \in 1..Len(config.rules) : config.rules[i].action = "remove"}

\* the rows whose value in the rule's column is not <= the rule's threshold
RECURSIVE RowsAbove(_, _)
RowsAbove(rows, rule) ==
  IF rows = <<>> THEN <<>>
  ELSE (IF Le(parseFloat(Head(rows)[rule.column]), parseFloat(rule.value))
        THEN <<>> ELSE <<Head(rows)>>)
         \o RowsAbove(Tail(rows), rule)

\* C9: a rule with condition greater-than, threshold v and action remove
\* removes every row whose value in its column is <= v, and no other row
\* (the rows it leaves are the output when it is the only removing rule).
C9_GreaterThanRemovesAtMostThreshold ==
  RulesApplied =>
    \A r \in RemoveRules :
      config.rules[r].condition = "greater-than" =>
        /\ \A i \in 1..Len(RuleRun.output) :
             ~Le(parseFloat(RuleRun.output[i][config.rules[r].column]),
                 parseFloat(config.rules[r].value))
        /\ RemoveRules = {r} => RuleRun.output = RowsAbove(RuleRun.input, config.rules[r])

\* a greater-than 0 rule removed a row with value 0 and kept a row with value 1
C9_Witness ==
  /\ RulesApplied
  /\ pc = "done"
  /\ config.rules = <<Rule("x", "greater-than", NumInt(0), "remove")>>
  /\ data = <<Row(NumInt(0), NumInt(1)), Row(NumInt(1), NumInt(1))>>
  /\ cleanedData = <<Row(NumInt(1), NumInt(1))>>

\* C20: a rule with condition not-equals, target v and action remove removes
\* every row whose value in the rule's column equals v.
C20_NotEqualsRemovesEqualRows ==
  RulesApplied =>
    \A r \in RemoveRules :
      config.rules[r].condition = "not-equals" =>
        \A i \in 1..Len(RuleRun.output) :
          RuleRun.output[i][config.rules[r].column] # config.rules[r].value

(***************************************************************************)
(* The whole pipeline: inputs that configure any of the three stages        *)
(***************************************************************************)
MaxPipelineRows == 5

PipelineCells == {Null, NumInt(0), NumInt(10)}

PipelineData == SeqsUpTo({Row(x, NumInt(1)) : x \in PipelineCells}, MaxPipelineRows)

PipelineConfigs ==
  {Config(i, o, r) :
     i \in {NoImputation, Imputation("mean", <<"x">>)},
     o \in {NoOutliers,
            Outliers("iqr", DefaultIqrThreshold, "cap", <<"x">>),
            Outliers("z-score", NumberThreshold(NumInt(1)), "cap", <<"x">>)},
     r \in {<<>>, <<Rule("x", "greater-than", NumInt(0), "remove")>>}}

PipelineInputs == {[data |-> dt, config |-> cf] : dt \in PipelineData, cf \in PipelineConfigs}

Init == Enter(PipelineInputs)

Spec == Init /\ [][Next]_vars

(***************************************************************************)
(* Properties of the pipeline                                               *)
(***************************************************************************)
\* the stages the configuration asks for, in pipeline order
ConfiguredStages ==
  (IF config.imputation.present THEN <<"imputation">> ELSE <<>>)
    \o (IF config.outliers.present THEN <<"outliers">> ELSE <<>>)
    \o (IF Len(config.rules) > 0 THEN <<"rules">> ELSE <<>>)

\* C10: the stages run in the order imputation, outliers, rules, each on the
\* previous stage's output (the first on the input data), and the result is
\* the last stage's output; so the outlier bounds are those of the imputed
\* rows: under iqr and cap the outlier stage's output is the imputation
\* stage's output clamped to the quartile bounds of that output.
C10_StagesInOrderOnPreviousOutput ==
  /\ Len(history) <= Len(ConfiguredStages)
  /\ \A k \in 1..Len(history) :
       /\ history[k].stage = ConfiguredStages[k]
       /\ history[k].input = IF k = 1 THEN data ELSE history[k - 1].output
  /\ cleanedData = IF history = <<>> THEN data ELSE history[Len(history)].output
  /\ pc \in {"return", "done"} => Len(history) = Len(ConfiguredStages)
  /\ (/\ Len(history) >= 2
      /\ history[1].stage = "imputation"
      /\ history[2].stage = "outliers"
      /\ config.outliers.method = "iqr") =>
       LET Bounds(col) == IqrBounds(history[1].output, col)
       IN  ClampedTo(history[1].output, history[2].output,
                     SelectedColumns(config.outliers), Bounds)

\* all three stages ran and each changed the rows; the quartile bounds of
\* the imputed rows differ from those of the raw rows, and a cell was capped
\* that lies inside the bounds of the raw rows
C10_Witness ==
  /\ pc = "done"
  /\ Len(history) = 3
  /\ \A k \in 1..3 : history[k].output # history[k].input
  /\ config.outliers.method = "iqr"
  /\ NumericCount(data, "x") > 0
  /\ IqrBounds(data, "x") # IqrBounds(history[1].output, "x")
  /\ \E i \in 1..Len(data) :
       /\ history[2].output[i]["x"] # history[2].input[i]["x"]
       /\ Le(parseFloat(data[i]["x"]), IqrBounds(data, "x").upper)
       /\ Ge(parseFloat(data[i]["x"]), IqrBounds(data, "x").lower)

(***************************************************************************)
(* Inputs of a run: cleaning configurations that rewrite cells, and         *)
(* analyses of uncleaned rows with values in x and weights in y             *)
(***************************************************************************)
MaxRunRows == 4

MaxEstimateRows == 2

RunCells == {Null, NumInt(0), NumInt(10)}

\* the column y, which no stage of RunConfigs is configured on, numbers the
\* rows 1, 2, ...
RunData ==
  {[i \in 1..Len(cells) |-> Row(cells[i], NumInt(i))] :
     cells \in SeqsUpTo(RunCells, MaxRunRows)}

RunConfigs ==
  {Config(i, o, r) :
     i \in {NoImputation, Imputation("mean", <<"x">>)},
     o \in {NoOutliers,
            Outliers("z-score", NumberThreshold(NumInt(1)), "cap", <<"x">>),
            Outliers("z-score", NumberThreshold(NumInt(1)), "remove", <<"x">>)},
     r \in {<<>>, <<Rule("x", "greater-than", NumInt(0), "remove")>>}}

EstimateValues == {Str("abc"), NumInt(1), NumInt(2), NumInt(4)}

EstimateWeights == {Str("abc"), NumInt(0), NumInt(1), NumInt(2), NumInt(-1)}

\* n rows with the values 1..n and weight 1: the degrees of freedom 11, 21
\* and 31 of the step table
Numbered(n) == [i \in 1..n |-> Row(NumInt(i), NumInt(1))]

\* n rows of weight 1 whose value does not parse in the first m rows
NumberedAfter(n, m) ==
  [i \in 1..n |-> Row(IF i <= m THEN Str("abc") ELSE NumInt(i), NumInt(1))]

EstimateData ==
  SeqsUpTo({Row(x, y) : x \in EstimateValues, y \in EstimateWeights}, MaxEstimateRows)
    \cup {Numbered(12), Numbered(22), Numbered(32), NumberedAfter(12, 2)}

Analyses ==
  {Analysis(<<"x">>, "", Num(95, 100)),
   Analysis(<<"x">>, "y", Num(95, 100)),
   Analysis(<<"y", "x">>, "y", Num(99, 100)),
   Analysis(<<"z", "x", "y">>, "", Num(95, 100))}

RunInputs ==
  {[data |-> dt, config |-> cf, analysis |-> Analysis(<<"x">>, "y", Num(95, 100))] :
     dt \in RunData, cf \in RunConfigs}
    \cup {[data |-> dt, config |-> Config(NoImputation, NoOutliers, <<>>), analysis |-> an] :
            dt \in EstimateData, an \in Analyses}

InitRun == EnterRun(RunInputs)

SpecRun == InitRun /\ [][NextRun]_vars

\* the values calculateColumnMode groups: the column's cells that are
\* neither null nor undefined
GroupedValues(rows, col) == FilterNotNullish([i \in 1..Len(rows) |-> rows[i][col]])

\* the first of the grouped keys that has the highest frequency
FirstMostFrequent(values) ==
  LET keys == ObjectKeys(values)
      best == {k \in 1..Len(keys) :
                 \A j \in 1..Len(keys) : Frequency(values, keys[j]) <= Frequency(values, keys[k])}
  IN  keys[CHOOSE k \in best : \A j \in best : k <= j]

\* C22: mode imputation fills a missing cell with a most frequent value of
\* the column, and when several values tie for the highest frequency, with
\* the one encountered first among the grouped keys.
C22_ModeTieTakesFirstKey ==
  ImputedWith({"mode"}) =>
    \A i \in 1..Len(history[1].input) :
      \A col \in SelectedColumns(config.imputation) :
        (/\ IsMissing(history[1].input[i][col])
         /\ GroupedValues(history[1].input, col) # <<>>) =>
          history[1].output[i][col] = FirstMostFrequent(GroupedValues(history[1].input, col))

\* the selected neighbours whose distance to the target row is finite
RECURSIVE FiniteNeighbors(_)
FiniteNeighbors(neighbors) ==
  IF neighbors = <<>> THEN <<>>
  ELSE (IF Head(neighbors).distance = Infinity THEN <<>> ELSE <<Head(neighbors)>>)
         \o FiniteNeighbors(Tail(neighbors))

\* the mode, as the code reduces it, of the neighbours' target values
ModeOfNeighbors(neighbors, col) ==
  LET neighborValues == [i \in 1..Len(neighbors) |-> neighbors[i].row[col]]
  IN  ReduceMostFrequent(neighborValues, ObjectKeys(neighborValues))

\* C23: in KNN imputation a candidate row that shares no comparable numeric
\* dimension with the target row (distance Infinity) does not contribute to
\* the imputed value, also when fewer than k candidates have a finite
\* distance: the value filled in is the one the selected neighbours of
\* finite distance give.
C23_InfiniteDistanceNeverContributes ==
  ImputedWith({"knn"}) =>
    \A i \in 1..Len(history[1].input) :
      \A col \in SelectedColumns(config.imputation) :
        LET neighbors == NearestNeighbors(history[1].input, history[1].input[i], col)
        IN  (/\ IsMissing(history[1].input[i][col])
             /\ FiniteNeighbors(neighbors) # <<>>) =>
              history[1].output[i][col] = ModeOfNeighbors(FiniteNeighbors(neighbors), col)

\* a row violates a rule: greater-than and value <= threshold, less-than and
\* value >= threshold, equals and value # target, not-equals and value =
\* target, range and value outside [min, max]; pattern is never violated
Violates(row, rule) ==
  LET value == row[rule.column]
  IN  CASE rule.condition = "greater-than" -> Le(parseFloat(value), parseFloat(rule.value))
        [] rule.condition = "less-than" -> Ge(parseFloat(value), parseFloat(rule.value))
        [] rule.condition = "equals" -> value # rule.value
        [] rule.condition = "not-equals" -> value = rule.value
        [] rule.condition = "range" ->
             Lt(parseFloat(value), rule.min) \/ Gt(parseFloat(value), rule.max)
        [] rule.condition = "pattern" -> FALSE

\* the rows, in order, that violate no rule whose action is remove
RECURSIVE RowsViolatingNoRemoveRule(_)
RowsViolatingNoRemoveRule(rows) ==
  IF rows = <<>> THEN <<>>
  ELSE (IF \E r \in RemoveRules : Violates(Head(rows), config.rules[r])
        THEN <<>> ELSE <<Head(rows)>>)
         \o RowsViolatingNoRemoveRule(Tail(rows))

\* C24: only rules with action remove affect the rule stage's output: a row
\* is dropped iff it violates at least one rule whose action is remove;
\* rules with action flag or transform, and rules with condition pattern,
\* never remove a row or change a cell, and the retained rows keep their
\* input order.
C24_OnlyRemoveRulesDropRows ==
  RulesApplied => RuleRun.output = RowsViolatingNoRemoveRule(RuleRun.input)

\* a column is numeric iff at least 70% of the first 100 sampled values
\* parse as finite numbers
IsNumericColumn(rows, col) ==
  LET sample == SubSeq(rows, 1, Min(100, Len(rows)))
      parsed == {i \in 1..Len(sample) :
                   ~isNaN(parseFloat(sample[i][col])) /\ isFinite(sample[i][col])}
  IN  10 * Cardinality(parsed) >= 7 * Len(sample)

\* the numeric columns other than the target, in key order
RECURSIVE NumericFeatures(_, _, _)
NumericFeatures(rows, keys, targetColumn) ==
  IF keys = <<>> THEN <<>>
  ELSE (IF Head(keys) # targetColumn /\ IsNumericColumn(rows, Head(keys))
        THEN <<Head(keys)>> ELSE <<>>)
         \o NumericFeatures(rows, Tail(keys), targetColumn)

\* the value KNN imputation fills in when the distance is taken over the
\* given columns
KnnValueOver(rows, targetRow, targetColumn, columns) ==
  LET completeRows == FilterComplete(rows, targetColumn)
      distances == [i \in 1..Len(completeRows) |->
                      [row |-> completeRows[i],
                       distance |-> calculateDistance(targetRow, completeRows[i],
                                                      columns, "euclidean")]]
  IN  ModeOfNeighbors(SubSeq(SortByDistance(distances), 1, Min(KnnK, Len(distances))),
                      targetColumn)

\* C26: there is one numeric-column classification rule: a column is
\* numeric, and so a distance feature of KNN imputation, iff at least 70% of
\* the first 100 sampled values parse as finite numbers; a column with
\* exactly 70% parseable values is numeric, and the rows beyond the 10th
\* (within the first 100) count. The data preview shows the same
\* classification.
C26_OneNumericRuleSeventyPercentOfHundred ==
  ImputedWith({"knn"}) =>
    /\ \A i \in 1..Len(history[1].input) :
         \A col \in SelectedColumns(config.imputation) :
           (/\ IsMissing(history[1].input[i][col])
            /\ FilterComplete(history[1].input, col) # <<>>) =>
             history[1].output[i][col] =
               KnnValueOver(history[1].input, history[1].input[i], col,
                            NumericFeatures(history[1].input, Headers, col))
    /\ \A col \in Keys :
         getColumnType(data, col) = "numeric" <=> IsNumericColumn(data, col)

(***************************************************************************)
(* Properties of a run                                                      *)
(***************************************************************************)
\* the operation at position k of the history
Ran(k, name) == Len(history) >= k /\ history[k].stage = name

\* C11: no operation of the engine mutates its input: at every point of a
\* run, and so after cleanData, calculateEstimates and
\* calculateDescriptiveStatistics returned, the caller's rows are the rows
\* that were passed, in the same order and with the same cells.
C11_InputNotMutated == inputRows = data

\* a run in which the imputation stage filled a cell and the outlier stage
\* capped one, both analyses returned, and the caller's rows are as passed
C11_Witness ==
  /\ pc = "analyzed"
  /\ Ran(1, "imputation") /\ history[1].output # history[1].input
  /\ Ran(2, "outliers") /\ history[2].output # history[2].input
  /\ Len(history[2].output) = Len(data)
  /\ history[Len(history)].stage = "calculateDescriptiveStatistics"
  /\ inputRows = data

\* the rows calculateEstimates was given and the results it returned
EstimatesRan == pc \in {"estimated", "analyzed"}

EstimateInput == history[CHOOSE k \in 1..Len(history) : Ran(k, "calculateEstimates")].input

Estimates == history[CHOOSE k \in 1..Len(history) : Ran(k, "calculateEstimates")].output

\* the rows whose cell in the column parses as a number
Parseable(rows, col) == {i \in 1..Len(rows) : ~isNaN(parseFloat(Cell(rows[i], col)))}

\* the unweighted arithmetic mean of the parseable values of a column
UnweightedMean(rows, col) ==
  Div(SumOfRows(rows, col, Parseable(rows, col)), NumInt(Cardinality(Parseable(rows, col))))

\* no weight column is configured, or every row's weight is the number 1
UnitWeights(rows) ==
  \/ analysis.weightColumn = ""
  \/ \A i \in 1..Len(rows) : Cell(rows[i], analysis.weightColumn) = NumInt(1)

\* C13: when every row's weight is 1, or no weight column is configured, the
\* estimate calculateEstimates returns for a target column is the
\* unweighted arithmetic mean of the column's parseable values.
C13_UnitWeightsGiveUnweightedMean ==
  (EstimatesRan /\ UnitWeights(EstimateInput)) =>
    \A k \in 1..Len(Estimates) :
      Estimates[k].estimate = UnweightedMean(EstimateInput, Estimates[k].variable)

\* a weight column of ones is configured and the mean of two or more
\* parseable values, which is not one of them, was returned
C13_Witness ==
  /\ EstimatesRan
  /\ analysis.weightColumn = "y"
  /\ UnitWeights(EstimateInput)
  /\ \E k \in 1..Len(Estimates) :
       /\ Estimates[k].sampleSize >= 2
       /\ Estimates[k].estimate.t = "num"
       /\ \A i \in 1..Len(EstimateInput) :
            Estimates[k].estimate # parseFloat(EstimateInput[i][Estimates[k].variable])

\* a = b on JavaScript numbers: NaN equals nothing
NumEq(a, b) == ~isNaN(a) /\ ~isNaN(b) /\ a = b

\* C14: the confidence interval of every EstimateResult is symmetric about
\* the estimate: estimate - low = high - estimate = marginOfError.
C14_IntervalSymmetric ==
  EstimatesRan =>
    \A k \in 1..Len(Estimates) :
      LET r == Estimates[k]
      IN  /\ NumEq(Sub(r.estimate, r.confidenceInterval[1]), r.marginOfError)
          /\ NumEq(Sub(r.confidenceInterval[2], r.estimate), r.marginOfError)

\* the columns, in order, that have a parseable value in some row
RECURSIVE ColumnsWithValues(_, _)
ColumnsWithValues(rows, columns) ==
  IF columns = <<>> THEN <<>>
  ELSE (IF Parseable(rows, Head(columns)) # {} THEN <<Head(columns)>> ELSE <<>>)
         \o ColumnsWithValues(rows, Tail(columns))

\* C15: calculateEstimates returns one EstimateResult for each target column
\* that has a parseable observation, in target-column order, with sampleSize
\* the number of parseable observations; a target column without one yields
\* no result and no error.
C15_OneEstimatePerColumnWithValues ==
  EstimatesRan =>
    /\ [k \in 1..Len(Estimates) |-> Estimates[k].variable] =
         ColumnsWithValues(EstimateInput, analysis.targetColumns)
    /\ \A k \in 1..Len(Estimates) :
         Estimates[k].sampleSize =
           Cardinality(Parseable(EstimateInput, Estimates[k].variable))

\* a target column without parseable value was skipped and a later one, with
\* a parseable and an unparseable cell, produced a result
C15_Witness ==
  /\ EstimatesRan
  /\ Len(Estimates) >= 1
  /\ Len(Estimates) < Len(analysis.targetColumns)
  /\ Parseable(EstimateInput, analysis.targetColumns[1]) = {}
  /\ Estimates[1].sampleSize >= 1
  /\ Estimates[1].sampleSize < Len(EstimateInput)

\* the weight of a row: the parsed weight cell when it parses as a number,
\* otherwise 1
ParsedWeight(row) ==
  LET weight == parseFloat(Cell(row, analysis.weightColumn))
  IN  IF analysis.weightColumn = "" \/ isNaN(weight) THEN NumInt(1) ELSE weight

\* the (value, weight) pairs of the rows with a parseable value in the column
RECURSIVE ParsedItems(_, _)
ParsedItems(rows, col) ==
  IF rows = <<>> THEN <<>>
  ELSE (IF isNaN(parseFloat(Cell(Head(rows), col))) THEN <<>>
        ELSE <<[value |-> parseFloat(Cell(Head(rows), col)),
                weight |-> ParsedWeight(Head(rows))]>>)
         \o ParsedItems(Tail(rows), col)

\* the sum of value * weight over the sum of the weights
MeanOfItems(items) ==
  Div(ReduceSum([i \in 1..Len(items) |-> Mul(items[i].value, items[i].weight)]),
      ReduceSum([i \in 1..Len(items) |-> items[i].weight]))

\* C21: the weight calculateEstimates uses for a row is the parsed value of
\* its weight-column cell whenever that cell parses as a number, a weight of
\* 0 included, and 1 only when no weight column is configured or the cell
\* does not parse; no row is dropped because of its weight: every estimate
\* is the mean of the parseable values under these weights, over all the
\* rows with a parseable value.
C21_WeightIsParsedCell ==
  EstimatesRan =>
    \A k \in 1..Len(Estimates) :
      LET items == ParsedItems(EstimateInput, Estimates[k].variable)
      IN  /\ Estimates[k].sampleSize = Len(items)
          /\ Estimates[k].estimate = MeanOfItems(items)

\* the critical value of the step table for df degrees of freedom
StepTable(df) ==
  IF df >= 30 THEN Num(196, 100)
  ELSE IF df >= 20 THEN Num(2086, 1000)
  ELSE IF df >= 10 THEN Num(2228, 1000)
  ELSE Num(2571, 1000)

ColumnOf(rows, col) == [i \in 1..Len(rows) |-> rows[i][col]]

\* sub is seq with some of its elements left out
RECURSIVE IsSubsequence(_, _)
IsSubsequence(sub, seq) ==
  IF sub = <<>> THEN TRUE
  ELSE IF seq = <<>> THEN FALSE
  ELSE IF Head(sub) = Head(seq) THEN IsSubsequence(Tail(sub), Tail(seq))
  ELSE IsSubsequence(sub, Tail(seq))

\* C27: for every input and configuration the rows cleanData holds after
\* each stage, and returns, are an order-preserving subsequence of the input
\* rows: no stage adds, duplicates or reorders rows, the output is not
\* longer than the input and each output row derives from one input row.
\* (The rows are followed by a column no stage is configured on; in the
\* inputs of the cleaning configurations it numbers the rows.)
C27_OutputIsSubsequenceOfInput ==
  /\ Len(cleanedData) <= Len(data)
  /\ IsSubsequence(ColumnOf(cleanedData, "y"), ColumnOf(data, "y"))

\* cleanData returned two or more rows of numbered input rows, the first
\* input row not among them, after imputation filled a cell, the outlier
\* stage removed a row and the rule stage ran
C27_Witness ==
  /\ pc = "done"
  /\ Ran(1, "imputation") /\ history[1].output # history[1].input
  /\ Ran(2, "outliers") /\ Len(history[2].output) < Len(history[2].input)
  /\ Ran(3, "rules")
  /\ Len(cleanedData) >= 2
  /\ cleanedData[1]["y"] # NumInt(1)
  /\ \A i, j \in 1..Len(data) : i # j => data[i]["y"] # data[j]["y"]

\* the rows calculateDescriptiveStatistics was given and the records it returned
StatisticsInput == history[Len(history)].input

DescriptiveStats == history[Len(history)].output

\* C17: calculateDescriptiveStatistics returns one record per requested
\* column, in request order, and does not fail; the record of a column
\* without parseable value has count 0 and mean, median, std, min and max 0.
C17_OneRecordPerColumnZeroWhenEmpty ==
  pc = "analyzed" =>
    /\ Ran(Len(history), "calculateDescriptiveStatistics")
    /\ [k \in 1..Len(DescriptiveStats) |-> DescriptiveStats[k].column] = analysis.targetColumns
    /\ \A k \in 1..Len(DescriptiveStats) :
         LET r == DescriptiveStats[k]
         IN  /\ r.count = Cardinality(Parseable(StatisticsInput, r.column))
             /\ r.count = 0 =>
                  \A f \in {"mean", "median", "std", "min", "max"} : r[f] = NumInt(0)

\* statistics were asked for a column without parseable value and for one
\* with values, whose record is not all zero
C17_Witness ==
  /\ pc = "analyzed"
  /\ \E k, l \in 1..Len(DescriptiveStats) :
       /\ DescriptiveStats[k].count = 0
       /\ DescriptiveStats[k].mean = NumInt(0)
       /\ DescriptiveStats[l].count >= 2
       /\ DescriptiveStats[l].mean # NumInt(0)
       /\ DescriptiveStats[l].std # NumInt(0)

(***************************************************************************)
(* File upload (FileUpload.onDrop); a string is a sequence of characters    *)
(***************************************************************************)
MaxParsedRows == 2

toLowerCaseChar(c) ==
  CASE c = "A" -> "a" [] c = "C" -> "c" [] c = "S" -> "s" [] c = "V" -> "v" [] OTHER -> c

toLowerCase(str) == [i \in 1..Len(str) |-> toLowerCaseChar(str[i])]

endsWith(str, suffix) ==
  /\ Len(str) >= Len(suffix)
  /\ SubSeq(str, Len(str) - Len(suffix) + 1, Len(str)) = suffix

RECURSIVE trimStart(_)
trimStart(str) == IF str # <<>> /\ Head(str) = " " THEN trimStart(Tail(str)) ELSE str

RECURSIVE trimEnd(_)
trimEnd(str) ==
  IF str # <<>> /\ str[Len(str)] = " " THEN trimEnd(SubSeq(str, 1, Len(str) - 1)) ELSE str

trim(str) == trimEnd(trimStart(str))

DigitValue(c) == CASE c = "0" -> 0 [] c = "1" -> 1 [] c = "2" -> 2

\* the longest prefix of digits
RECURSIVE DigitsPrefix(_)
DigitsPrefix(str) ==
  IF str # <<>> /\ Head(str) \in {"0", "1", "2"}
  THEN <<Head(str)>> \o DigitsPrefix(Tail(str)) ELSE <<>>

RECURSIVE DigitsValue(_)
DigitsValue(digits) ==
  IF digits = <<>> THEN 0
  ELSE 10 * DigitsValue(SubSeq(digits, 1, Len(digits) - 1)) + DigitValue(digits[Len(digits)])

\* parseFloat of a string of blanks, digits and letters: leading blanks are
\* skipped and the digits that follow are the number
parseFloatText(str) ==
  LET digits == DigitsPrefix(trimStart(str))
  IN  IF digits = <<>> THEN NaN ELSE NumInt(DigitsValue(digits))

\* a string cell of a loaded row
Text(str) == [t |-> "str", n |-> 0, d |-> 1, s |-> str]

\* let value = row[index] || ''; a number when it parses and is not blank
CellValue(row, index) ==
  LET value == IF index <= Len(row) THEN row[index] ELSE <<>>
      numValue == parseFloatText(value)
  IN  IF ~isNaN(numValue) /\ trim(value) # <<>> THEN numValue ELSE Text(value)

\* headers.forEach((header, index) => rowData[header.trim()] = value): of two
\* headers with the same trimmed name the later one wins
RowData(headers, row) ==
  [h \in {trim(headers[i]) : i \in 1..Len(headers)} |->
     CellValue(row, CHOOSE i \in 1..Len(headers) :
                      /\ trim(headers[i]) = h
                      /\ \A j \in 1..Len(headers) : trim(headers[j]) = h => j <= i)]

\* dataRows.filter(row => row.length > 1 && row.some(cell => cell.trim() !== '')).map(...)
RECURSIVE SurveyRows(_, _)
SurveyRows(headers, dataRows) ==
  IF dataRows = <<>> THEN <<>>
  ELSE (IF Len(Head(dataRows)) > 1
           /\ \E i \in 1..Len(Head(dataRows)) : trim(Head(dataRows)[i]) # <<>>
        THEN <<RowData(headers, Head(dataRows))>> ELSE <<>>)
         \o SurveyRows(headers, Tail(dataRows))

NoSurveyData == [headers |-> <<>>, rows |-> <<>>, filename |-> <<>>]

OnError(message) == [callback |-> "onError", message |-> message, surveyData |-> NoSurveyData]

OnDataLoaded(surveyData) ==
  [callback |-> "onDataLoaded", message |-> "", surveyData |-> surveyData]

\* a complete handler that does not look at the number of rows
complete_NoRowCheck(f) ==
  IF f.errors > 0 THEN OnError("CSV parsing error")
  ELSE IF f.data = <<>> \/ Len(Head(f.data)) = 0 THEN OnError("No headers found in CSV file")
  ELSE OnDataLoaded([headers |-> [i \in 1..Len(Head(f.data)) |-> trim(Head(f.data)[i])],
                     rows |-> SurveyRows(Head(f.data), Tail(f.data)),
                     filename |-> f.name])

\* the callback the complete handler of Papa.parse calls for result
complete(f) ==
  IF f.errors > 0 THEN OnError("CSV parsing error")
  ELSE IF f.data = <<>> \/ Len(Head(f.data)) = 0 THEN OnError("No headers found in CSV file")
  ELSE LET headers == Head(f.data)
           rows == SurveyRows(headers, Tail(f.data))
       IN  IF Len(rows) = 0 THEN OnError("No data rows found in CSV file")
           ELSE OnDataLoaded([headers |-> [i \in 1..Len(headers) |-> trim(headers[i])],
                              rows |-> rows,
                              filename |-> f.name])

\* onDrop(acceptedFiles) up to the call of Papa.parse
OnDrop ==
  /\ pc = "dropped"
  /\ IF ~file.present
     THEN pc' = "idle" /\ UNCHANGED calls
     ELSE IF ~endsWith(toLowerCase(file.name), <<".", "c", "s", "v">>)
     THEN pc' = "idle" /\ calls' = Append(calls, OnError("Please upload a CSV file"))
     ELSE pc' = "parsing" /\ UNCHANGED calls
  /\ UNCHANGED <<file, data, config, analysis, cleanedData, owner, inputRows, history>>

\* Papa.parse calls complete: (result) => { ... }
ParseComplete ==
  /\ pc = "parsing"
  /\ file.outcome = "complete"
  /\ calls' = Append(calls, complete(file))
  /\ pc' = "idle"
  /\ UNCHANGED <<file, data, config, analysis, cleanedData, owner, inputRows, history>>

\* Papa.parse calls error: (error) => { ... }
ParseError ==
  /\ pc = "parsing"
  /\ file.outcome = "error"
  /\ calls' = Append(calls, OnError("File parsing error"))
  /\ pc' = "idle"
  /\ UNCHANGED <<file, data, config, analysis, cleanedData, owner, inputRows, history>>

NextUpload == OnDrop \/ ParseComplete \/ ParseError

File(name, outcome, errors, parsed) ==
  [present |-> TRUE, name |-> name, outcome |-> outcome, errors |-> errors, data |-> parsed]

ParsedCells == {<<>>, <<" ">>, <<"1">>, <<"a", " ">>}

\* the rows of one or two cells; skipEmptyLines leaves no row that is [""]
ParsedRows ==
  {<<c>> : c \in ParsedCells \ {<<>>}} \cup {<<c1, c2>> : c1 \in ParsedCells, c2 \in ParsedCells}

CsvNames == {<<"a", ".", "c", "s", "v">>, <<"A", ".", "C", "S", "V">>}

OtherNames == {<<"a", ".", "t", "x", "t">>, <<"c", "s", "v">>}

Files ==
  {NoFile}
    \cup {File(name, "complete", 0, <<>>) : name \in OtherNames}
    \cup {File(name, "error", 0, <<>>) : name \in CsvNames}
    \cup {File(name, "complete", errors, parsed) :
            name \in CsvNames, errors \in {0, 1}, parsed \in SeqsUpTo(ParsedRows, MaxParsedRows)}

InitUpload ==
  /\ file \in Files
  /\ calls = <<>>
  /\ data = <<>>
  /\ config = Config(NoImputation, NoOutliers, <<>>)
  /\ analysis = NoAnalysis
  /\ cleanedData = <<>>
  /\ owner = <<>>
  /\ inputRows = <<>>
  /\ pc = "dropped"
  /\ history = <<>>

SpecUpload == InitUpload /\ [][NextUpload]_vars

(***************************************************************************)
(* Properties of the upload                                                 *)
(***************************************************************************)
\* the name ends in .csv, in any case of the letters
CsvName ==
  /\ Len(file.name) >= 4
  /\ SubSeq(file.name, Len(file.name) - 3, Len(file.name)) \in
       {<<".", c, s, v>> : c \in {"c", "C"}, s \in {"s", "S"}, v \in {"v", "V"}}

ParseFailed == file.outcome = "error" \/ file.errors > 0

HasHeaderRow == Len(file.data) >= 1 /\ Len(file.data[1]) >= 1

HasDataRow == Len(file.data) >= 2

\* C16: the upload calls onDataLoaded only for a file with a CSV name that
\* parsed without error into a non-empty header row and at least one data
\* row; for a name that is not CSV, a parse error, a missing header row or
\* no data row it calls onError and never onDataLoaded.
C16_UploadHandsOverOnlyWellFormedData ==
  /\ \A k \in 1..Len(calls) :
       calls[k].callback = "onDataLoaded" =>
         /\ CsvName /\ ~ParseFailed /\ HasHeaderRow /\ HasDataRow
         /\ Len(calls[k].surveyData.headers) >= 1
         /\ Len(calls[k].surveyData.rows) >= 1
  /\ (pc = "idle" /\ file.present
        /\ (~CsvName \/ ParseFailed \/ ~HasHeaderRow \/ ~HasDataRow)) =>
       Len(calls) = 1 /\ calls[1].callback = "onError"

\* a file named in upper case was parsed into a header row and a data row
\* with a number, and handed over
C16_Witness ==
  /\ pc = "idle"
  /\ Len(calls) = 1
  /\ calls[1].callback = "onDataLoaded"
  /\ file.name # toLowerCase(file.name)
  /\ Len(calls[1].surveyData.rows) = 1
  /\ \E h \in DOMAIN calls[1].surveyData.rows[1] :
       calls[1].surveyData.rows[1][h] = NumInt(1)

====
